---- MODULE Spec2Model ----
(***************************************************************************)
(* Model of the libdns provider for neodigit/virtualname (tecnocratica).   *)
(*                                                                         *)
(* Go strings are modelled as sequences of one-character strings, so that  *)
(* the suffix, trim and split operations of package strings are computed   *)
(* character by character.  "e.c" is written <<"e", ".", "c">>.            *)
(* A time.Duration is modelled in milliseconds.                            *)
(*                                                                         *)
(* A step of the model is one HTTP request of the client together with the *)
(* statements of the operation up to its next request.  The remote API is  *)
(* a list of zones and, per zone, a list of records in listing order; it   *)
(* stores what it is sent under the id it assigns, as the handlers of the  *)
(* tests do.  The canonical record codec libdns.RR.Parse is outside the    *)
(* repository; it is modelled by the records it rejects.  newClient fails  *)
(* only for an API URL that does not parse, which is not modelled.         *)
(*                                                                         *)
(* Specifications:                                                         *)
(*   Spec        one caller, one call of any operation;                    *)
(*   SpecZones   zone resolution over any short zone list;                 *)
(*   SpecCodec   the record translator applied forth and back;             *)
(*   SpecCancel  Spec with a context that may be cancelled;                *)
(*   SpecAgain   one caller, a call and a later call;                      *)
(*   SpecRace    two callers whose provider calls interleave;              *)
(*   SpecKeys    SetRecords with records of two keys, called twice;        *)
(*   SpecSpelled SetRecords and DeleteRecords on a zone whose record       *)
(*               names the provider spells in several ways.                *)
(***************************************************************************)
EXTENDS Integers, Sequences, FiniteSets, TLC

(***************************************************************************)
(* Package strings and fmt                                                 *)
(***************************************************************************)

\* strings.HasSuffix
HasSuffix(s, suffix) ==
    /\ Len(suffix) <= Len(s)
    /\ SubSeq(s, Len(s) - Len(suffix) + 1, Len(s)) = suffix

\* strings.TrimSuffix: removes one occurrence of the suffix, if present
TrimSuffix(s, suffix) ==
    IF HasSuffix(s, suffix) THEN SubSeq(s, 1, Len(s) - Len(suffix)) ELSE s

\* strings.CutSuffix: [after, found]
CutSuffix(s, suffix) ==
    [after |-> TrimSuffix(s, suffix), found |-> HasSuffix(s, suffix)]

RECURSIVE TrimLeft(_, _)
\* strings.TrimLeft: removes every leading character of the cutset
TrimLeft(s, cutset) ==
    IF s # << >> /\ Head(s) \in cutset THEN TrimLeft(Tail(s), cutset) ELSE s

RECURSIVE TrimRight(_, _)
\* strings.TrimRight: removes every trailing character of the cutset
TrimRight(s, cutset) ==
    IF s # << >> /\ s[Len(s)] \in cutset
    THEN TrimRight(SubSeq(s, 1, Len(s) - 1), cutset)
    ELSE s

\* strings.Trim
Trim(s, cutset) == TrimRight(TrimLeft(s, cutset), cutset)

\* unicode.IsSpace, restricted to the characters of the model
Space == {" "}

RECURSIVE FieldsFrom(_, _, _)
\* the scan of strings.Fields: cur is the field being read, acc the fields read
FieldsFrom(s, cur, acc) ==
    IF s = << >>
    THEN IF cur = << >> THEN acc ELSE Append(acc, cur)
    ELSE IF Head(s) \in Space
         THEN FieldsFrom(Tail(s), << >>, IF cur = << >> THEN acc ELSE Append(acc, cur))
         ELSE FieldsFrom(Tail(s), Append(cur, Head(s)), acc)

\* strings.Fields: the maximal runs of non-space characters
Fields(s) == FieldsFrom(s, << >>, << >>)

RECURSIVE Join(_, _)
\* strings.Join
Join(parts, sep) ==
    IF parts = << >> THEN << >>
    ELSE IF Len(parts) = 1 THEN parts[1]
    ELSE parts[1] \o sep \o Join(Tail(parts), sep)

Digits == <<"0", "1", "2", "3", "4", "5", "6", "7", "8", "9">>

DigitSet == {Digits[i] : i \in 1..10}

DigitVal(c) == (CHOOSE i \in 1..10 : Digits[i] = c) - 1

RECURSIVE ScanDigits(_, _, _)
\* reads the longest prefix of decimal digits: [n |-> digits read, val |-> value]
ScanDigits(s, n, val) ==
    IF s # << >> /\ Head(s) \in DigitSet
    THEN ScanDigits(Tail(s), n + 1, val * 10 + DigitVal(Head(s)))
    ELSE [n |-> n, val |-> val]

\* fmt.Sscanf(tok, "%d", &priority) with its error ignored: an optional sign,
\* then the longest run of digits; when there is no digit the variable keeps
\* its old value old.
SscanfInt(tok, old) ==
    LET signed == tok # << >> /\ Head(tok) \in {"+", "-"}
        body   == IF signed THEN Tail(tok) ELSE tok
        d      == ScanDigits(body, 0, 0)
    IN  IF d.n = 0 THEN old
        ELSE IF signed /\ Head(tok) = "-" THEN 0 - d.val ELSE d.val

RECURSIVE NatToStr(_)
NatToStr(n) ==
    IF n < 10 THEN <<Digits[n + 1]>>
    ELSE NatToStr(n \div 10) \o <<Digits[(n % 10) + 1]>>

\* fmt.Sprintf("%d", n)
IntToStr(n) == IF n < 0 THEN <<"-">> \o NatToStr(0 - n) ELSE NatToStr(n)

(***************************************************************************)
(* Record translator                                                       *)
(***************************************************************************)

\* time.Duration(1 * time.Second), in the model's unit (milliseconds)
Second == 1000

\* libdnsToInternal with a slip: data = parts[1] in place of
\* strings.Join(parts[1:], " "), so that SRV content loses port and target
libdnsToInternal_secondField(zone, rr) ==
    LET normalizedZone == TrimSuffix(zone, <<".">>)
        normalizedName == TrimSuffix(rr.Name, <<".">>)
        zoneSuffix     == <<".">> \o normalizedZone
        cut            == CutSuffix(normalizedName, zoneSuffix)
        name1          == IF cut.found THEN cut.after ELSE rr.Name
        name           == IF \/ name1 = << >>
                             \/ name1 = <<"@">>
                             \/ name1 = zone
                             \/ name1 = TrimSuffix(zone, <<".">>)
                          THEN <<"@">> ELSE name1
        data0          == IF rr.Type = "TXT" THEN Trim(rr.Data, {"\""}) ELSE rr.Data
        parts          == Fields(rr.Data)
        split          == \/ rr.Type = "MX" /\ Len(parts) >= 2
                          \/ rr.Type = "SRV" /\ Len(parts) >= 4
        priority       == IF split THEN SscanfInt(parts[1], 0) ELSE 0
        data           == IF split THEN parts[2] ELSE data0
    IN  [ID       |-> 0,
         Name     |-> name,
         Type     |-> rr.Type,
         Content  |-> data,
         TTL      |-> rr.TTL \div Second,
         Priority |-> priority]

\* libdnsToInternal: canonical RR [Name, Type, Data, TTL] to provider Record
\* (ID 0: not yet assigned)
libdnsToInternal(zone, rr) ==
    LET normalizedZone == TrimSuffix(zone, <<".">>)
        normalizedName == TrimSuffix(rr.Name, <<".">>)
        zoneSuffix     == <<".">> \o normalizedZone
        cut            == CutSuffix(normalizedName, zoneSuffix)
        name1          == IF cut.found THEN cut.after ELSE rr.Name
        name           == IF \/ name1 = << >>
                             \/ name1 = <<"@">>
                             \/ name1 = zone
                             \/ name1 = TrimSuffix(zone, <<".">>)
                          THEN <<"@">> ELSE name1
        data0          == IF rr.Type = "TXT" THEN Trim(rr.Data, {"\""}) ELSE rr.Data
        parts          == Fields(rr.Data)
        split          == \/ rr.Type = "MX" /\ Len(parts) >= 2
                          \/ rr.Type = "SRV" /\ Len(parts) >= 4
        priority       == IF split THEN SscanfInt(parts[1], 0) ELSE 0
        data           == IF split THEN Join(Tail(parts), <<" ">>) ELSE data0
    IN  [ID       |-> 0,
         Name     |-> name,
         Type     |-> rr.Type,
         Content  |-> data,
         TTL      |-> rr.TTL \div Second,
         Priority |-> priority]

RECURSIVE AllIn(_, _)
AllIn(s, set) == s = << >> \/ (Head(s) \in set /\ AllIn(Tail(s), set))

\* a field the codec reads as an unsigned decimal number
IsNumber(s) == s # << >> /\ AllIn(s, DigitSet)

\* libdns.RR.Parse, the canonical record codec (a library outside this
\* repository), as far as it accepts or rejects: an address must be a
\* well-formed address (here: digits and dots), MX data has two fields of
\* which the first is a number, SRV data has four fields of which the first
\* three are numbers and an SRV name has at least the service and the
\* protocol labels; the other types are taken as they are.
ParseOK(rr) ==
    LET f == Fields(rr.Data)
    IN  CASE rr.Type \in {"A", "AAAA"} ->
                rr.Data # << >> /\ AllIn(rr.Data, DigitSet \cup {"."})
          [] rr.Type = "MX" ->
                Len(f) = 2 /\ IsNumber(f[1])
          [] rr.Type = "SRV" ->
                /\ Len(f) = 4 /\ IsNumber(f[1]) /\ IsNumber(f[2]) /\ IsNumber(f[3])
                /\ \E i \in 1..Len(rr.Name) : rr.Name[i] = "."
          [] OTHER -> TRUE

\* the placeholder "_service._tcp", with one-character labels
SRVPlaceholder == <<"_", "s", ".", "_", "t">>

\* internalToLibdns with a slip: the apex name is zone + "." without the test
\* for a zone argument that already ends in a dot
internalToLibdns_addDot(zone, rec) ==
    LET data == CASE rec.Type \in {"MX", "SRV"} ->
                        IntToStr(rec.Priority) \o <<" ">> \o rec.Content
                  [] rec.Type = "TXT" -> Trim(rec.Content, {"\""})
                  [] OTHER -> rec.Content
        name0 == IF rec.Type = "SRV" /\ (rec.Name = << >> \/ rec.Name = <<"@">>)
                 THEN SRVPlaceholder
                 ELSE rec.Name
        normalizedZone == TrimSuffix(zone, <<".">>)
        name == IF name0 = << >> \/ name0 = <<"@">>
                THEN zone \o <<".">>
                ELSE IF \/ HasSuffix(name0, <<".">> \o normalizedZone)
                        \/ HasSuffix(name0, <<".">> \o normalizedZone \o <<".">>)
                THEN TrimSuffix(name0, <<".">>) \o <<".">>
                ELSE IF name0 = normalizedZone \/ name0 = normalizedZone \o <<".">>
                THEN normalizedZone \o <<".">>
                ELSE name0 \o <<".">> \o normalizedZone \o <<".">>
        rr == [Name |-> name, Type |-> rec.Type, Data |-> data,
               TTL |-> rec.TTL * Second]
    IN  [ok |-> ParseOK(rr), rr |-> rr]

\* internalToLibdns: provider Record to canonical RR; ok is FALSE when the
\* codec rejects the reconstructed record (the function returns an error)
internalToLibdns(zone, rec) ==
    LET data == CASE rec.Type \in {"MX", "SRV"} ->
                        IntToStr(rec.Priority) \o <<" ">> \o rec.Content
                  [] rec.Type = "TXT" -> Trim(rec.Content, {"\""})
                  [] OTHER -> rec.Content
        name0 == IF rec.Type = "SRV" /\ (rec.Name = << >> \/ rec.Name = <<"@">>)
                 THEN SRVPlaceholder
                 ELSE rec.Name
        normalizedZone == TrimSuffix(zone, <<".">>)
        name == IF name0 = << >> \/ name0 = <<"@">>
                THEN IF ~HasSuffix(zone, <<".">>) THEN zone \o <<".">> ELSE zone
                ELSE IF \/ HasSuffix(name0, <<".">> \o normalizedZone)
                        \/ HasSuffix(name0, <<".">> \o normalizedZone \o <<".">>)
                THEN TrimSuffix(name0, <<".">>) \o <<".">>
                ELSE IF name0 = normalizedZone \/ name0 = normalizedZone \o <<".">>
                THEN normalizedZone \o <<".">>
                ELSE name0 \o <<".">> \o normalizedZone \o <<".">>
        rr == [Name |-> name, Type |-> rec.Type, Data |-> data,
               TTL |-> rec.TTL * Second]
    IN  [ok |-> ParseOK(rr), rr |-> rr]

(***************************************************************************)
(* The remote API: zones, and per zone the records in listing order        *)
(***************************************************************************)

VARIABLES
    zones,      \* the provider's zone list: sequence of [ID, Name]
    records,    \* zone id -> sequence of provider Records, in listing order
    nextID,     \* the id the provider assigns to the next created record
    pc,         \* per caller: "off", "idle", "zone", "list", "append", "set",
                \*             "delete", "done"
    req,        \* per caller: the call [op, zone, input], the state of its
                \*             context ctx ("live" or "canceled"), and again:
                \*             whether the caller has called before
    zoneID,     \* per caller: the result of getZoneID
    existing,   \* per caller: existingRecords, the list fetched by this call
    cur,        \* per caller: the position in the loop of the operation
    result,     \* per caller: the records accumulated for the return value
    err,        \* per caller: the error returned ("none" while there is none)
    log,        \* per caller: the provider calls issued by the current call
    pre         \* per caller: the provider records when the call started

vars == <<zones, records, nextID, pc, req, zoneID, existing, cur, result, err, log, pre>>

Procs == {1, 2}

\* bounds of the model
MaxInput == 3
MaxExisting == 2

Min(S) == CHOOSE x \in S : \A y \in S : x <= y

Max(a, b) == IF a >= b THEN a ELSE b

\* all sequences over S of length at most n
SeqsUpTo(S, n) == UNION {[1..k -> S] : k \in 0..n}

\* recordKey{Name, Type}
KeyOf(rec) == [Name |-> rec.Name, Type |-> rec.Type]

\* the zone names callers pass: the listed zone "e.c" written with the
\* trailing dot, and a zone the provider does not list
ZoneArgs == {<<"e", ".", "c", ".">>, <<"n", ".", "c">>}

\* the canonical records callers pass: two MX records of the apex, one
\* named "@" and one by the absolute name of the zone, with a ttl of 60 s
\* and of 30.5 s; and an A record whose data is not an address
InputPool ==
    { [Name |-> <<"@">>, Type |-> "MX", Data |-> <<"1", "0", " ", "m">>, TTL |-> 60000],
      [Name |-> <<"e", ".", "c", ".">>, Type |-> "MX", Data |-> <<"2", "0", " ", "n">>, TTL |-> 30500],
      [Name |-> <<"@">>, Type |-> "A", Data |-> <<"x">>, TTL |-> 60000] }

\* the records the zone may hold before the call (ids are assigned in Init)
ExistingPool ==
    { [ID |-> 0, Name |-> <<"@">>, Type |-> "MX", Content |-> <<"m">>, TTL |-> 60, Priority |-> 10],
      [ID |-> 0, Name |-> <<"@">>, Type |-> "MX", Content |-> <<"n">>, TTL |-> 30, Priority |-> 20],
      [ID |-> 0, Name |-> <<"@">>, Type |-> "A", Content |-> <<"x">>, TTL |-> 60, Priority |-> 0] }

\* the id the API gives record i of a zone that was filled in order
WithIDs(recs) == [i \in DOMAIN recs |-> [recs[i] EXCEPT !.ID = i]]

\* POST /dns/zones/{zone}/records: the record is stored under a new id
ProviderCreate(recs, id, rec) == Append(recs, [rec EXCEPT !.ID = id])

\* PUT /dns/zones/{zone}/records/{id}: the record keeps its id and its place
ProviderUpdate(recs, id, rec) ==
    [i \in DOMAIN recs |-> IF recs[i].ID = id THEN [rec EXCEPT !.ID = id] ELSE recs[i]]

\* DELETE /dns/zones/{zone}/records/{id}
ProviderDelete(recs, id) ==
    LET Keep(r) == r.ID # id IN SelectSeq(recs, Keep)

HasID(recs, id) == \E i \in DOMAIN recs : recs[i].ID = id

\* no key: the map iteration of SetRecords is between two keys
NoKey == [Name |-> << >>, Type |-> "none"]

NoCursor == [key |-> NoKey, i |-> 1, j |-> 1, phase |-> "none", found |-> FALSE, left |-> {}]

InitProvider ==
    /\ zones = << [ID |-> 2, Name |-> <<"o", ".", "c">>],
                  [ID |-> 1, Name |-> <<"e", ".", "c">>] >>
    /\ \E recs \in SeqsUpTo(ExistingPool, MaxExisting) :
          /\ records = [z \in {1, 2} |-> IF z = 1 THEN WithIDs(recs) ELSE << >>]
          /\ nextID = Len(recs) + 1

InitCallers(active) ==
    /\ pc = [p \in Procs |-> IF p \in active THEN "idle" ELSE "off"]
    /\ req = [p \in Procs |-> [op |-> "none", zone |-> << >>, input |-> << >>, ctx |-> "live",
                              again |-> FALSE]]
    /\ zoneID = [p \in Procs |-> 0]
    /\ existing = [p \in Procs |-> << >>]
    /\ cur = [p \in Procs |-> NoCursor]
    /\ result = [p \in Procs |-> << >>]
    /\ err = [p \in Procs |-> "none"]
    /\ log = [p \in Procs |-> << >>]
    /\ pre = [p \in Procs |-> << >>]

\* one caller
Init == InitProvider /\ InitCallers({1})

(***************************************************************************)
(* The HTTP client.  A provider call ends in one of four ways:             *)
(*   "ok"        2xx and a readable body;                                  *)
(*   "fail"      transport error or non-2xx status, nothing applied;       *)
(*   "lost"      the API applied the request, the response could not be    *)
(*               read;                                                     *)
(*   "canceled"  the context of the call was done before the request was   *)
(*               sent: http.Client.Do returns the error of the context     *)
(*               without sending.                                          *)
(* A context that is done while a request is in flight leaves the provider *)
(* as "fail" or "lost" do.                                                 *)
(***************************************************************************)

ReadOutcomes == {"ok", "fail", "canceled"}
WriteOutcomes == {"ok", "fail", "lost", "canceled"}

NoRec == [ID |-> 0, Name |-> << >>, Type |-> "", Content |-> << >>, TTL |-> 0, Priority |-> 0]

\* one entry of the call log: the request (kind, record id, record sent), how
\* it ended, and the loop index i of the operation that issued it
Call(kind, id, rec, outcome, i) ==
    [call |-> kind, id |-> id, rec |-> rec, outcome |-> outcome, i |-> i]

\* the request built without the context of the call (http.NewRequest):
\* the calls go on after the context is done
CtxOutcome_ignored(p, outcome) == outcome # "canceled"

\* http.NewRequestWithContext(ctx, ...) and HTTPClient.Do: a request is
\* refused with the error of the context exactly when the context is done
CtxOutcome(p, outcome) == (req[p].ctx = "canceled") <=> (outcome = "canceled")

\* the error a failed call returns: every caller wraps it with %w or returns
\* it as it is, so the error of the context stays recognisable
ErrorOf(outcome) == IF outcome = "canceled" THEN "canceled" ELSE "http"

\* the error of Client.do dropped: the caller goes on after a failed call
DoError_never(outcome) == FALSE

\* Client.do: the call returns an error unless its outcome is "ok"
DoError(outcome) == outcome # "ok"

\* a retry in the place of the return after a failed request: the operation
\* stays where it is and issues the request again
Return_retry(p, value, e) ==
    IF e = "http"
    THEN UNCHANGED <<pc, result, err, cur>>
    ELSE /\ pc' = [pc EXCEPT ![p] = "done"]
         /\ result' = [result EXCEPT ![p] = IF e = "none" THEN value ELSE << >>]
         /\ err' = [err EXCEPT ![p] = e]
         /\ cur' = [cur EXCEPT ![p] = NoCursor]

\* a call returns: Go's (nil, err) or (value, nil)
Return(p, value, e) ==
    /\ pc' = [pc EXCEPT ![p] = "done"]
    /\ result' = [result EXCEPT ![p] = IF e = "none" THEN value ELSE << >>]
    /\ err' = [err EXCEPT ![p] = e]
    /\ cur' = [cur EXCEPT ![p] = NoCursor]

\* getZoneID with a slip: an unknown zone falls back to the first listed zone
getZoneID_first(zs, zone) ==
    LET zoneName == TrimSuffix(zone, <<".">>)
        hits == {i \in DOMAIN zs : TrimSuffix(zs[i].Name, <<".">>) = zoneName}
    IN  IF hits = {} THEN [ok |-> zs # << >>, id |-> IF zs = << >> THEN 0 ELSE zs[1].ID]
        ELSE [ok |-> TRUE, id |-> zs[Min(hits)].ID]

\* getZoneID with a slip: strings.TrimRight in place of strings.TrimSuffix, so
\* that every trailing dot is dropped before the names are compared
getZoneID_trimAll(zs, zone) ==
    LET zoneName == TrimRight(zone, {"."})
        hits == {i \in DOMAIN zs : TrimRight(zs[i].Name, {"."}) = zoneName}
    IN  IF hits = {} THEN [ok |-> FALSE, id |-> 0]
        ELSE [ok |-> TRUE, id |-> zs[Min(hits)].ID]

\* Provider.getZoneID, after the zone list was read: the id of the first zone
\* whose name equals the queried name, both without one trailing dot
getZoneID(zs, zone) ==
    LET zoneName == TrimSuffix(zone, <<".">>)
        hits == {i \in DOMAIN zs : TrimSuffix(zs[i].Name, <<".">>) = zoneName}
    IN  IF hits = {} THEN [ok |-> FALSE, id |-> 0]
        ELSE [ok |-> TRUE, id |-> zs[Min(hits)].ID]

\* the caller invokes one of the four operations
Start(p, op, zone, input) ==
    /\ pc[p] = "idle"
    /\ pc' = [pc EXCEPT ![p] = "zone"]
    /\ req' = [req EXCEPT ![p] = [op |-> op, zone |-> zone, input |-> input, ctx |-> "live",
                               again |-> req[p].again]]
    /\ log' = [log EXCEPT ![p] = << >>]
    /\ pre' = [pre EXCEPT ![p] = records]
    /\ UNCHANGED <<zones, records, nextID, zoneID, existing, cur, result, err>>

\* the first statement of every operation: p.getZoneID(ctx, zone)
ZoneLookup(p, outcome) ==
    /\ pc[p] = "zone"
    /\ CtxOutcome(p, outcome)
    /\ log' = [log EXCEPT ![p] = Append(@, Call("zones", 0, NoRec, outcome, 0))]
    /\ LET z == getZoneID(zones, req[p].zone)
       IN  IF DoError(outcome)
           THEN Return(p, << >>, ErrorOf(outcome)) /\ UNCHANGED zoneID
           ELSE IF ~z.ok
           THEN Return(p, << >>, "zone not found") /\ UNCHANGED zoneID
           ELSE /\ zoneID' = [zoneID EXCEPT ![p] = z.id]
                /\ IF req[p].op = "Append"
                   THEN IF req[p].input = << >>
                        THEN Return(p, << >>, "none")
                        ELSE /\ pc' = [pc EXCEPT ![p] = "append"]
                             /\ cur' = [cur EXCEPT ![p] = NoCursor]
                             /\ UNCHANGED <<result, err>>
                   ELSE /\ pc' = [pc EXCEPT ![p] = "list"]
                        /\ UNCHANGED <<cur, result, err>>
    /\ UNCHANGED <<zones, records, nextID, req, existing, pre>>

RECURSIVE Translatable_break(_, _)
\* the loop of GetRecords with break in place of continue
Translatable_break(zone, recs) ==
    IF recs = << >> THEN << >>
    ELSE LET t == internalToLibdns(zone, Head(recs))
         IN  IF t.ok THEN <<t.rr>> \o Translatable_break(zone, Tail(recs))
             ELSE << >>

RECURSIVE Translatable(_, _)
\* the loop of GetRecords: the translations of the records that translate
Translatable(zone, recs) ==
    IF recs = << >> THEN << >>
    ELSE LET t == internalToLibdns(zone, Head(recs))
         IN  IF t.ok THEN <<t.rr>> \o Translatable(zone, Tail(recs))
             ELSE Translatable(zone, Tail(recs))

\* the input of a call in provider form, in input order
Internal(zone, input) == [i \in DOMAIN input |-> libdnsToInternal(zone, input[i])]

\* inputByKey with a slip: the bucket is overwritten (inputByKey[key] =
\* []Record{internalRec}) in place of appended to
InputByKey_last(zone, input, key) ==
    LET IsKey(r) == KeyOf(r) = key
        all == SelectSeq(Internal(zone, input), IsKey)
    IN  IF all = << >> THEN << >> ELSE <<all[Len(all)]>>

\* inputByKey with a slip: the bucket is prepended to, so that the records
\* of a key are processed against the input order
InputByKey_reversed(zone, input, key) ==
    LET IsKey(r) == KeyOf(r) = key
        all == SelectSeq(Internal(zone, input), IsKey)
    IN  [i \in DOMAIN all |-> all[Len(all) + 1 - i]]

\* inputByKey[key] of SetRecords
InputByKey(zone, input, key) ==
    LET IsKey(r) == KeyOf(r) = key IN SelectSeq(Internal(zone, input), IsKey)

\* existingForKey left empty: no existing record is reused
ExistingForKey_none(recs, key) == << >>

\* existingForKey with a slip: the type is not compared
ExistingForKey_nameOnly(recs, key) ==
    LET IsKey(r) == r.Name = key.Name IN SelectSeq(recs, IsKey)

\* existingForKey of SetRecords
ExistingForKey(recs, key) ==
    LET IsKey(r) == r.Name = key.Name /\ r.Type = key.Type IN SelectSeq(recs, IsKey)

\* the keys of inputByKey
InputKeys(zone, input) == {KeyOf(libdnsToInternal(zone, input[i])) : i \in DOMAIN input}

RECURSIVE NextDelete_nameOnly(_, _, _, _)
\* NextDelete with a slip: the fallback loop does not compare the type
NextDelete_nameOnly(zone, input, recs, c) ==
    IF c.i > Len(input) THEN [c EXCEPT !.phase = "end"]
    ELSE LET internalRec == libdnsToInternal(zone, input[c.i])
             nextInput == [c EXCEPT !.i = c.i + 1, !.j = 1, !.phase = "exact", !.found = FALSE]
         IN  IF c.phase = "exact"
             THEN IF c.j > Len(recs)
                  THEN IF c.found
                       THEN NextDelete_nameOnly(zone, input, recs, nextInput)
                       ELSE NextDelete_nameOnly(zone, input, recs,
                                                [c EXCEPT !.j = 1, !.phase = "fallback"])
                  ELSE IF /\ recs[c.j].Name = internalRec.Name
                          /\ recs[c.j].Type = internalRec.Type
                          /\ recs[c.j].Content = internalRec.Content
                       THEN c
                       ELSE NextDelete_nameOnly(zone, input, recs, [c EXCEPT !.j = c.j + 1])
             ELSE IF c.j > Len(recs)
                  THEN NextDelete_nameOnly(zone, input, recs, nextInput)
                  ELSE IF recs[c.j].Name = internalRec.Name
                       THEN c
                       ELSE NextDelete_nameOnly(zone, input, recs, [c EXCEPT !.j = c.j + 1])

RECURSIVE NextDelete(_, _, _, _)
\* DeleteRecords from position c on: the position of the next record the
\* two loops over existingRecords pass to deleteRecord, or phase "end"
NextDelete(zone, input, recs, c) ==
    IF c.i > Len(input) THEN [c EXCEPT !.phase = "end"]
    ELSE LET internalRec == libdnsToInternal(zone, input[c.i])
             nextInput == [c EXCEPT !.i = c.i + 1, !.j = 1, !.phase = "exact", !.found = FALSE]
         IN  IF c.phase = "exact"
             THEN IF c.j > Len(recs)
                  THEN IF c.found
                       THEN NextDelete(zone, input, recs, nextInput)
                       ELSE NextDelete(zone, input, recs, [c EXCEPT !.j = 1, !.phase = "fallback"])
                  ELSE IF /\ recs[c.j].Name = internalRec.Name
                          /\ recs[c.j].Type = internalRec.Type
                          /\ recs[c.j].Content = internalRec.Content
                       THEN c
                       ELSE NextDelete(zone, input, recs, [c EXCEPT !.j = c.j + 1])
             ELSE IF c.j > Len(recs)
                  THEN NextDelete(zone, input, recs, nextInput)
                  ELSE IF /\ recs[c.j].Name = internalRec.Name
                          /\ recs[c.j].Type = internalRec.Type
                       THEN c
                       ELSE NextDelete(zone, input, recs, [c EXCEPT !.j = c.j + 1])

\* getRecords with a cache: the list an earlier call of the caller fetched
\* is answered in place of the provider's
getRecords_cached(p) ==
    IF existing[p] # << >> THEN existing[p] ELSE records[zoneID[p]]

\* Client.getRecords: the records the API lists for the zone
getRecords(p) == records[zoneID[p]]

\* client.getRecords(ctx, zoneID, "") of GetRecords, SetRecords and
\* DeleteRecords, and what follows it up to the next provider call
ListRecords(p, outcome) ==
    /\ pc[p] = "list"
    /\ CtxOutcome(p, outcome)
    /\ log' = [log EXCEPT ![p] = Append(@, Call("list", 0, NoRec, outcome, 0))]
    /\ LET recs == getRecords(p)
           zone == req[p].zone
           input == req[p].input
       IN  IF DoError(outcome)
           THEN Return(p, << >>, ErrorOf(outcome)) /\ UNCHANGED existing
           ELSE /\ existing' = [existing EXCEPT ![p] = recs]
                /\ CASE req[p].op = "Get" ->
                          Return(p, Translatable(zone, recs), "none")
                     [] req[p].op = "Set" ->
                          IF input = << >>
                          THEN Return(p, << >>, "none")
                          ELSE /\ pc' = [pc EXCEPT ![p] = "set"]
                               /\ cur' = [cur EXCEPT ![p] =
                                            [NoCursor EXCEPT !.left = InputKeys(zone, input)]]
                               /\ UNCHANGED <<result, err>>
                     [] req[p].op = "Delete" ->
                          LET c == NextDelete(zone, input, recs,
                                              [NoCursor EXCEPT !.phase = "exact"])
                          IN  IF c.phase = "end"
                              THEN Return(p, << >>, "none")
                              ELSE /\ pc' = [pc EXCEPT ![p] = "delete"]
                                   /\ cur' = [cur EXCEPT ![p] = c]
                                   /\ UNCHANGED <<result, err>>
    /\ UNCHANGED <<zones, records, nextID, req, zoneID, pre>>

\* the API applies a request unless the call failed or was refused before
\* reaching it
Applied(outcome) == outcome \in {"ok", "lost"}

\* createRecord behind a re-read: the record is not posted when the zone
\* already holds a record of its name and type
DoCreate_ifAbsent(zid, rec, outcome) ==
    IF Applied(outcome) /\ ExistingForKey(records[zid], KeyOf(rec)) = << >>
    THEN /\ records' = [records EXCEPT ![zid] = ProviderCreate(@, nextID, rec)]
         /\ nextID' = nextID + 1
    ELSE UNCHANGED <<records, nextID>>

\* client.createRecord: the effect on the provider
DoCreate(zid, rec, outcome) ==
    IF Applied(outcome)
    THEN /\ records' = [records EXCEPT ![zid] = ProviderCreate(@, nextID, rec)]
         /\ nextID' = nextID + 1
    ELSE UNCHANGED <<records, nextID>>

\* updateRecord as a delete and a create: the record comes back under a
\* new id
DoUpdate_recreate(zid, id, rec, outcome) ==
    /\ Applied(outcome) => HasID(records[zid], id)
    /\ IF Applied(outcome)
       THEN /\ records' = [records EXCEPT ![zid] = ProviderCreate(ProviderDelete(@, id), nextID, rec)]
            /\ nextID' = nextID + 1
       ELSE UNCHANGED <<records, nextID>>

\* client.updateRecord: the effect on the provider; the API answers 404 for
\* an id it does not have
DoUpdate(zid, id, rec, outcome) ==
    /\ Applied(outcome) => HasID(records[zid], id)
    /\ IF Applied(outcome)
       THEN records' = [records EXCEPT ![zid] = ProviderUpdate(@, id, rec)]
       ELSE UNCHANGED records
    /\ UNCHANGED nextID

\* client.deleteRecord: the effect on the provider
DoDelete(zid, id, outcome) ==
    /\ IF Applied(outcome)
       THEN records' = [records EXCEPT ![zid] = ProviderDelete(@, id)]
       ELSE UNCHANGED records
    /\ UNCHANGED nextID

\* the loop of AppendRecords returning from its first iteration
AppendLast_one(input) == 1

\* the last iteration of "for _, record := range records"
AppendLast(input) == Len(input)

\* one iteration of the loop of AppendRecords
AppendStep(p, outcome) ==
    /\ pc[p] = "append"
    /\ CtxOutcome(p, outcome)
    /\ LET zone == req[p].zone
           input == req[p].input
           i == cur[p].i
           internalRec == libdnsToInternal(zone, input[i])
           createdRec == [internalRec EXCEPT !.ID = nextID]
           libdnsRec == internalToLibdns(zone, createdRec)
       IN  /\ DoCreate(zoneID[p], internalRec, outcome)
           /\ log' = [log EXCEPT ![p] = Append(@, Call("create", 0, internalRec, outcome, i))]
           /\ IF DoError(outcome)
              THEN Return(p, << >>, ErrorOf(outcome))
              ELSE IF ~libdnsRec.ok
              THEN Return(p, << >>, "convert")
              ELSE IF i = AppendLast(input)
              THEN Return(p, Append(result[p], libdnsRec.rr), "none")
              ELSE /\ result' = [result EXCEPT ![p] = Append(@, libdnsRec.rr)]
                   /\ cur' = [cur EXCEPT ![p].i = i + 1]
                   /\ UNCHANGED <<pc, err>>
    /\ UNCHANGED <<zones, req, zoneID, existing, pre>>

\* the loops over a key without the second one: surplus records are kept
SetLast_noDelete(inputRecs, existingForKey) == Len(inputRecs)

\* the last index the two loops over a key reach: "for i, internalRec :=
\* range inputRecs", then "for i := len(inputRecs); i < len(existingForKey)"
SetLast(inputRecs, existingForKey) == Max(Len(inputRecs), Len(existingForKey))

\* the cursor of SetRecords after step i of key: the next step of the same
\* key, or the choice of the next key
SetAdvance(c, key, i, last) ==
    IF i < last THEN [c EXCEPT !.key = key, !.i = i + 1]
    ELSE [c EXCEPT !.key = NoKey, !.i = 1, !.left = c.left \ {key}]

\* one provider call of SetRecords, for the key the map iteration is at (any
\* key not yet processed when a new key starts): the update or create of
\* input record i of the key, or the delete of surplus existing record i
SetStep(p, key, outcome) ==
    /\ pc[p] = "set"
    /\ CtxOutcome(p, outcome)
    /\ key \in cur[p].left
    /\ cur[p].key # NoKey => key = cur[p].key
    /\ LET zone == req[p].zone
           inputRecs == InputByKey(zone, req[p].input, key)
           existingForKey == ExistingForKey(existing[p], key)
           i == cur[p].i
           last == SetLast(inputRecs, existingForKey)
           next == SetAdvance(cur[p], key, i, last)
           finished == next.left = {}
       IN  IF i <= Len(inputRecs)
           THEN LET internalRec == inputRecs[i]
                    update == i <= Len(existingForKey)
                    id == IF update THEN existingForKey[i].ID ELSE nextID
                    resultRec == [internalRec EXCEPT !.ID = id]
                    libdnsRec == internalToLibdns(zone, resultRec)
                IN  /\ IF update
                       THEN /\ DoUpdate(zoneID[p], id, internalRec, outcome)
                            /\ log' = [log EXCEPT ![p] =
                                         Append(@, Call("update", id, internalRec, outcome, i))]
                       ELSE /\ DoCreate(zoneID[p], internalRec, outcome)
                            /\ log' = [log EXCEPT ![p] =
                                         Append(@, Call("create", 0, internalRec, outcome, i))]
                    /\ IF DoError(outcome)
                       THEN Return(p, << >>, ErrorOf(outcome))
                       ELSE IF ~libdnsRec.ok
                       THEN Return(p, << >>, "convert")
                       ELSE IF finished
                       THEN Return(p, Append(result[p], libdnsRec.rr), "none")
                       ELSE /\ result' = [result EXCEPT ![p] = Append(@, libdnsRec.rr)]
                            /\ cur' = [cur EXCEPT ![p] = next]
                            /\ UNCHANGED <<pc, err>>
           ELSE LET id == existingForKey[i].ID
                IN  /\ outcome # "lost"
                    /\ DoDelete(zoneID[p], id, outcome)
                    /\ log' = [log EXCEPT ![p] = Append(@, Call("delete", id, NoRec, outcome, i))]
                    /\ IF DoError(outcome)
                       THEN Return(p, << >>, ErrorOf(outcome))
                       ELSE IF finished
                       THEN Return(p, result[p], "none")
                       ELSE /\ cur' = [cur EXCEPT ![p] = next]
                            /\ UNCHANGED <<pc, result, err>>
    /\ UNCHANGED <<zones, req, zoneID, existing, pre>>

\* AfterDelete with a break in the loop over exact matches too
AfterDelete_break(c) ==
    [c EXCEPT !.i = c.i + 1, !.j = 1, !.phase = "exact", !.found = FALSE]

\* AfterDelete without the break of the fallback loop
AfterDelete_all(c) ==
    IF c.phase = "exact"
    THEN [c EXCEPT !.j = c.j + 1, !.found = TRUE]
    ELSE [c EXCEPT !.j = c.j + 1]

\* DeleteRecords after a deleted match at c: the loop over exact matches
\* sets found and goes on with the next existing record, the fallback loop
\* breaks and the next input record is taken
AfterDelete(c) ==
    IF c.phase = "exact"
    THEN [c EXCEPT !.j = c.j + 1, !.found = TRUE]
    ELSE [c EXCEPT !.i = c.i + 1, !.j = 1, !.phase = "exact", !.found = FALSE]

\* one deleteRecord call of DeleteRecords, for the match the loops are at
DeleteStep(p, outcome) ==
    /\ pc[p] = "delete"
    /\ CtxOutcome(p, outcome)
    /\ outcome # "lost"
    /\ LET zone == req[p].zone
           input == req[p].input
           c == cur[p]
           rec == existing[p][c.j]
           libdnsRec == internalToLibdns(zone, rec)
           next == NextDelete(zone, input, existing[p], AfterDelete(c))
       IN  /\ DoDelete(zoneID[p], rec.ID, outcome)
           /\ log' = [log EXCEPT ![p] = Append(@, Call("delete", rec.ID, NoRec, outcome, c.i))]
           /\ IF DoError(outcome)
              THEN Return(p, << >>, ErrorOf(outcome))
              ELSE IF ~libdnsRec.ok
              THEN Return(p, << >>, "convert")
              ELSE IF next.phase = "end"
              THEN Return(p, Append(result[p], libdnsRec.rr), "none")
              ELSE /\ result' = [result EXCEPT ![p] = Append(@, libdnsRec.rr)]
                   /\ cur' = [cur EXCEPT ![p] = next]
                   /\ UNCHANGED <<pc, err>>
    /\ UNCHANGED <<zones, req, zoneID, existing, pre>>

Ops == {"Get", "Append", "Set", "Delete"}

\* the record lists callers pass
Inputs == SeqsUpTo(InputPool, MaxInput)

Next ==
    \E p \in Procs :
        \/ /\ pc[p] = "idle"
           /\ \E op \in Ops, zone \in ZoneArgs, input \in Inputs :
                 /\ op = "Get" => input = << >>
                 /\ Start(p, op, zone, input)
        \/ \E outcome \in ReadOutcomes : ZoneLookup(p, outcome)
        \/ \E outcome \in ReadOutcomes : ListRecords(p, outcome)
        \/ \E outcome \in WriteOutcomes : AppendStep(p, outcome)
        \/ \E key \in cur[p].left : \E outcome \in WriteOutcomes : SetStep(p, key, outcome)
        \/ \E outcome \in WriteOutcomes : DeleteStep(p, outcome)

Spec == Init /\ [][Next]_vars

(***************************************************************************)
(* Properties                                                              *)
(***************************************************************************)

\* the call of p has returned
Done(p) == pc[p] = "done"

\* every provider call the call of p issued got its answer
AllOK(p) == \A k \in DOMAIN log[p] : log[p][k].outcome = "ok"

\* the kinds of provider call that read or change records
RecordCalls == {"list", "create", "update", "delete"}

\* the zone name is in the provider's zone list, a trailing dot aside
Listed(zone) ==
    \E i \in DOMAIN zones :
        \/ zones[i].Name = zone
        \/ zones[i].Name \o <<".">> = zone
        \/ zones[i].Name = zone \o <<".">>

\* the positions of the records of recs that translate to canonical form
TranslatableAt(zone, recs) == {i \in DOMAIN recs : internalToLibdns(zone, recs[i]).ok}

\* the k-th smallest element of a set of numbers
Kth(S, k) == CHOOSE i \in S : Cardinality({j \in S : j <= i}) = k

\* C9: GetRecords never fails because a provider record cannot be
\* translated: when the zone lookup and the record list are answered, it
\* returns no error and its result is the translation of the translatable
\* provider records, one result per such record, in provider order.
C9_ListDropsUntranslatable ==
    \A p \in Procs :
        (Done(p) /\ req[p].op = "Get" /\ Len(log[p]) = 2 /\ AllOK(p)) =>
            LET recs == pre[p][zoneID[p]]
                at == TranslatableAt(req[p].zone, recs)
            IN  /\ err[p] = "none"
                /\ Len(result[p]) = Cardinality(at)
                /\ \A k \in 1..Len(result[p]) :
                      result[p][k] = internalToLibdns(req[p].zone, recs[Kth(at, k)]).rr

\* C9 witness: a listing that returned the second of two records after
\* dropping the first, which the codec rejects
C9_Witness ==
    /\ Done(1) /\ req[1].op = "Get" /\ err[1] = "none"
    /\ Len(pre[1][zoneID[1]]) = 2
    /\ TranslatableAt(req[1].zone, pre[1][zoneID[1]]) = {2}
    /\ Len(result[1]) = 1

\* C10: GetRecords of a listed zone without records returns an empty result
\* and no error; and every operation on a zone the provider does not list
\* returns the zone-not-found error after the zone lookup alone: no record
\* is listed, created, updated or deleted and the provider is unchanged.
C10_ZoneNotFound ==
    \A p \in Procs :
        Done(p) =>
            /\ (req[p].op = "Get" /\ Len(log[p]) = 2 /\ AllOK(p) /\ records[zoneID[p]] = << >>)
                  => (err[p] = "none" /\ result[p] = << >>)
            /\ (~Listed(req[p].zone) /\ log[p][1].outcome = "ok")
                  => /\ err[p] = "zone not found"
                     /\ result[p] = << >>
                     /\ \A k \in DOMAIN log[p] : log[p][k].call \notin RecordCalls
                     /\ records = pre[p]

\* C10 witness: SetRecords with records to set, on a zone that is not
\* listed while the provider holds records, has returned
C10_Witness ==
    /\ Done(1) /\ req[1].op = "Set" /\ req[1].input # << >>
    /\ ~Listed(req[1].zone)
    /\ err[1] = "zone not found"
    /\ records[1] # << >>

\* the elements of a sequence
Range(s) == {s[i] : i \in DOMAIN s}

\* what a record says, its key and its id aside
Payload(r) == [Content |-> r.Content, Priority |-> r.Priority, TTL |-> r.TTL]

\* the number of records of recs with the key and the payload
CountOf(recs, key, x) ==
    Cardinality({i \in DOMAIN recs : KeyOf(recs[i]) = key /\ Payload(recs[i]) = x})

RECURSIVE Normalized(_, _)
\* the records of input in provider form, in input order
Normalized(zone, input) ==
    IF input = << >> THEN << >>
    ELSE <<libdnsToInternal(zone, Head(input))>> \o Normalized(zone, Tail(input))

\* the input of the call of p after normalization
Wanted(p) == Normalized(req[p].zone, req[p].input)

\* the (name, type) pairs that occur in the input of the call of p
WantedKeys(p) == LET want == Wanted(p) IN {KeyOf(want[i]) : i \in DOMAIN want}

\* the records of recs with the key, in the order of recs
WithKey(recs, key) == LET Same(r) == KeyOf(r) = key IN SelectSeq(recs, Same)

\* SetRecords of p returned without error
SetSucceeded(p) == Done(p) /\ req[p].op = "Set" /\ err[p] = "none"

\* C1: after a SetRecords call that returned without error, for every
\* (name, type) pair of the normalized input the zone holds, under that pair,
\* exactly the input records of that pair: every content, priority and ttl
\* as many times as the input has it, and nothing else.
C1_SetExactSet ==
    \A p \in Procs :
        SetSucceeded(p) =>
            LET want == Wanted(p)
                have == records[zoneID[p]]
            IN  \A key \in {KeyOf(want[i]) : i \in DOMAIN want} :
                    /\ Len(WithKey(have, key)) = Len(WithKey(want, key))
                    /\ \A r \in Range(want) \cup Range(have) :
                          CountOf(have, key, Payload(r)) = CountOf(want, key, Payload(r))

\* C1 witness: SetRecords succeeded with two different records of one pair
\* on a zone that held one record of that pair, which differs from the
\* first of the two, and one record of another pair
C1_Witness ==
    /\ SetSucceeded(1)
    /\ Len(req[1].input) = 2
    /\ \E key \in WantedKeys(1) :
          /\ Len(WithKey(Wanted(1), key)) = 2
          /\ Payload(Wanted(1)[1]) # Payload(Wanted(1)[2])
          /\ Len(pre[1][zoneID[1]]) = 2
          /\ Len(WithKey(pre[1][zoneID[1]], key)) = 1
          /\ Payload(WithKey(pre[1][zoneID[1]], key)[1]) # Payload(Wanted(1)[1])
          /\ \E r \in Range(pre[1][zoneID[1]]) : KeyOf(r) # key

\* the records of recs whose pair is not among keys
Others(keys, recs) == LET Other(r) == KeyOf(r) \notin keys IN SelectSeq(recs, Other)

\* C2: at every point of a SetRecords call, finished or aborted, the records
\* whose (name, type) pair is absent from the input are those the zone had
\* when the call started, with the same id, content, priority and ttl; and
\* every update, create and delete the call issued is for a pair of the input.
C2_SetFrame ==
    \A p \in Procs :
        req[p].op = "Set" =>
            LET keys == WantedKeys(p)
            IN  /\ \A z \in DOMAIN records :
                      Others(keys, records[z]) = Others(keys, pre[p][z])
                /\ \A k \in DOMAIN log[p] :
                      LET c == log[p][k]
                      IN  /\ c.call \in {"create", "update"} => KeyOf(c.rec) \in keys
                          /\ c.call \in {"update", "delete"} =>
                                \E r \in Range(pre[p][zoneID[p]]) :
                                    r.ID = c.id /\ KeyOf(r) \in keys

\* C2 witness: a SetRecords call aborted after it had changed the zone, which
\* holds a record of a pair that is not in the input
C2_Witness ==
    /\ Done(1) /\ req[1].op = "Set" /\ err[1] # "none"
    /\ records # pre[1]
    /\ Others(WantedKeys(1), records[zoneID[1]]) # << >>

\* the update calls of the call of p for the key, in the order issued
UpdatesFor(p, key) ==
    LET Is(c) == c.call = "update" /\ KeyOf(c.rec) = key IN SelectSeq(log[p], Is)

\* the create calls of the call of p for the key, in the order issued
CreatesFor(p, key) ==
    LET Is(c) == c.call = "create" /\ KeyOf(c.rec) = key IN SelectSeq(log[p], Is)

\* the ids of the delete calls of the call of p for records that had the
\* key when the call started, in the order issued
DeletesFor(p, key) ==
    LET Is(c) == /\ c.call = "delete"
                 /\ \E r \in Range(pre[p][zoneID[p]]) : r.ID = c.id /\ KeyOf(r) = key
        calls == SelectSeq(log[p], Is)
    IN  [k \in DOMAIN calls |-> calls[k].id]

\* the number of returned records that belong to the key
ResultsFor(p, key) ==
    Cardinality({k \in DOMAIN result[p] :
                    KeyOf(libdnsToInternal(req[p].zone, result[p][k])) = key})

\* the record of recs with the id has the payload of rec
HoldsAt(recs, id, rec) ==
    \E r \in Range(recs) : r.ID = id /\ KeyOf(r) = KeyOf(rec) /\ Payload(r) = Payload(rec)

\* C3: in a SetRecords call that succeeded, a key with d input records and
\* e > d existing records got exactly d updates, update i carrying input
\* record i of the key under the id of existing record i (provider order),
\* then the deletes of existing records d+1..e, and no create; the zone
\* holds input record i under the id of existing record i, the surplus ids
\* are gone, and d of the returned records belong to the key.
C3_SetFewerInputs ==
    \A p \in Procs :
        SetSucceeded(p) =>
            \A key \in WantedKeys(p) :
                LET want == WithKey(Wanted(p), key)
                    old == WithKey(pre[p][zoneID[p]], key)
                    d == Len(want)
                    e == Len(old)
                    ups == UpdatesFor(p, key)
                IN  d < e =>
                      /\ Len(ups) = d
                      /\ \A i \in 1..d :
                            /\ ups[i].id = old[i].ID
                            /\ ups[i].rec = want[i]
                            /\ HoldsAt(records[zoneID[p]], old[i].ID, want[i])
                      /\ DeletesFor(p, key) = [i \in 1..(e - d) |-> old[d + i].ID]
                      /\ \A i \in (d + 1)..e : ~HasID(records[zoneID[p]], old[i].ID)
                      /\ CreatesFor(p, key) = << >>
                      /\ ResultsFor(p, key) = d

\* C3 witness: SetRecords succeeded with one input record against two
\* existing records of its key, the first of which differed from the input
C3_Witness ==
    /\ SetSucceeded(1)
    /\ Len(req[1].input) = 1
    /\ Len(WithKey(pre[1][zoneID[1]], KeyOf(Wanted(1)[1]))) = 2
    /\ Payload(pre[1][zoneID[1]][1]) # Payload(Wanted(1)[1])
    /\ Len(result[1]) = 1

\* C4: in a SetRecords call that succeeded, a key with d input records and
\* e < d existing records got exactly e updates, update i carrying input
\* record i of the key under the id of existing record i, then d - e
\* creates carrying input records e+1..d in order, and no delete; every
\* existing id is still there and d of the returned records belong to the key.
C4_SetMoreInputs ==
    \A p \in Procs :
        SetSucceeded(p) =>
            \A key \in WantedKeys(p) :
                LET want == WithKey(Wanted(p), key)
                    old == WithKey(pre[p][zoneID[p]], key)
                    d == Len(want)
                    e == Len(old)
                    ups == UpdatesFor(p, key)
                    news == CreatesFor(p, key)
                IN  d > e =>
                      /\ Len(ups) = e
                      /\ \A i \in 1..e :
                            /\ ups[i].id = old[i].ID
                            /\ ups[i].rec = want[i]
                            /\ HoldsAt(records[zoneID[p]], old[i].ID, want[i])
                      /\ Len(news) = d - e
                      /\ \A i \in 1..(d - e) : news[i].rec = want[e + i]
                      /\ DeletesFor(p, key) = << >>
                      /\ Len(WithKey(records[zoneID[p]], key)) = d
                      /\ ResultsFor(p, key) = d

\* C4 witness: SetRecords succeeded with three input records against one
\* existing record of their key: one update, two creates, three results
C4_Witness ==
    /\ SetSucceeded(1)
    /\ Len(req[1].input) = 3
    /\ Cardinality(WantedKeys(1)) = 1
    /\ Len(pre[1][zoneID[1]]) = 1
    /\ KeyOf(pre[1][zoneID[1]][1]) \in WantedKeys(1)
    /\ Len(UpdatesFor(1, KeyOf(Wanted(1)[1]))) = 1
    /\ Len(CreatesFor(1, KeyOf(Wanted(1)[1]))) = 2
    /\ Len(result[1]) = 3
    /\ Len(records[zoneID[1]]) = 3

\* the kinds of provider call that change records
Mutations == {"create", "update", "delete"}

\* call c of p failed, or the record it returned does not translate
FailedAt(p, c) ==
    \/ c.outcome # "ok"
    \/ c.call \in {"create", "update"} /\ ~internalToLibdns(req[p].zone, c.rec).ok

\* the ids of the records of recs
IDs(recs) == {recs[i].ID : i \in DOMAIN recs}

\* the records of the zone of p that were created since the call started
Created(p) ==
    LET New(r) == r.ID \notin IDs(pre[p][zoneID[p]]) IN SelectSeq(records[zoneID[p]], New)

\* the create calls of p that reached the provider, in the order issued
AppliedCreates(p) ==
    LET Is(c) == c.call = "create" /\ c.outcome # "fail" IN SelectSeq(log[p], Is)

\* every update, create and delete of p that reached the provider is still
\* in effect: the updated id holds the record sent, the deleted id is gone,
\* and the records created are those sent, in order
StaysApplied(p) ==
    /\ \A k \in DOMAIN log[p] :
          LET c == log[p][k]
          IN  c.outcome # "fail" =>
                /\ c.call = "update" => HoldsAt(records[zoneID[p]], c.id, c.rec)
                /\ c.call = "delete" => ~HasID(records[zoneID[p]], c.id)
    /\ zoneID[p] # 0 =>
          LET new == Created(p)
              sent == AppliedCreates(p)
          IN  /\ Len(new) = Len(sent)
              /\ \A j \in DOMAIN new :
                    /\ KeyOf(new[j]) = KeyOf(sent[j].rec)
                    /\ Payload(new[j]) = Payload(sent[j].rec)

\* C5: in SetRecords, an update, create or delete that fails, or whose
\* returned record does not translate, is the last provider call of the
\* call, which has returned an error and no record; and whatever the calls
\* before (and a call whose response was lost) applied is still applied.
C5_SetAbortsNoRollback ==
    \A p \in Procs :
        req[p].op = "Set" =>
            /\ \A k \in DOMAIN log[p] :
                  (log[p][k].call \in Mutations /\ FailedAt(p, log[p][k])) =>
                      /\ k = Len(log[p])
                      /\ Done(p)
                      /\ err[p] # "none"
                      /\ result[p] = << >>
            /\ StaysApplied(p)

\* C5 witness: SetRecords aborted on a call that failed after an update that
\* changed a record and a create had been applied
C5_Witness ==
    /\ Done(1) /\ req[1].op = "Set" /\ err[1] = "http"
    /\ Len(log[1]) = 5
    /\ log[1][3].call = "update" /\ log[1][3].outcome = "ok"
    /\ log[1][4].call = "create" /\ log[1][4].outcome = "ok"
    /\ log[1][5].outcome = "fail"
    /\ ~HoldsAt(pre[1][zoneID[1]], log[1][3].id, log[1][3].rec)
    /\ Len(Created(1)) = 1

\* C6: AppendRecords issues, after the zone lookup, one create per input
\* record in input order and nothing else; when it succeeds it returns one
\* record per input record; a create that fails, or whose returned record
\* does not translate, is the last call, the call has returned an error, and
\* the records created before (and by a create whose response was lost)
\* are in the zone after the records it had, which are unchanged.
C6_AppendPartial ==
    \A p \in Procs :
        req[p].op = "Append" =>
            /\ Len(log[p]) <= Len(req[p].input) + 1
            /\ \A k \in 2..Len(log[p]) :
                  /\ log[p][k].call = "create"
                  /\ log[p][k].rec = libdnsToInternal(req[p].zone, req[p].input[k - 1])
                  /\ FailedAt(p, log[p][k]) =>
                        /\ k = Len(log[p])
                        /\ Done(p)
                        /\ err[p] # "none"
                        /\ result[p] = << >>
            /\ (Done(p) /\ err[p] = "none") =>
                  /\ Len(log[p]) = Len(req[p].input) + 1
                  /\ Len(result[p]) = Len(req[p].input)
                  /\ \A i \in DOMAIN result[p] :
                        result[p][i] = internalToLibdns(req[p].zone, log[p][i + 1].rec).rr
            /\ StaysApplied(p)
            /\ zoneID[p] # 0 =>
                  records[zoneID[p]] = pre[p][zoneID[p]] \o Created(p)

\* C6 witness: AppendRecords of three records aborted at the second, whose
\* created record does not translate: the third was never sent and the zone
\* has the first two
C6_Witness ==
    /\ Done(1) /\ req[1].op = "Append" /\ err[1] = "convert"
    /\ Len(req[1].input) = 3
    /\ Len(log[1]) = 3
    /\ Len(Created(1)) = 2
    /\ pre[1][zoneID[1]] # << >>

\* DeleteRecords of p returned without error
DeleteSucceeded(p) == Done(p) /\ req[p].op = "Delete" /\ err[p] = "none"

\* the positions of the records of snap that agree with the normalized
\* input record w in name, type and content
ExactAt(snap, w) ==
    {j \in DOMAIN snap :
        snap[j].Name = w.Name /\ snap[j].Type = w.Type /\ snap[j].Content = w.Content}

\* the positions of those that agree with w in name and type
SameKeyAt(snap, w) == {j \in DOMAIN snap : KeyOf(snap[j]) = KeyOf(w)}

\* the delete calls of the call of p, in the order issued
Deletes(p) == LET Is(c) == c.call = "delete" IN SelectSeq(log[p], Is)

\* the ids the delete calls dels passed to deleteRecord for input record i
DeletedFor(dels, i) ==
    LET Is(c) == c.i = i
        calls == SelectSeq(dels, Is)
    IN  [k \in DOMAIN calls |-> calls[k].id]

\* the ids of the records at the positions S of snap, in order
IDsAt(snap, S) == [k \in 1..Cardinality(S) |-> snap[Kth(S, k)].ID]

\* the record of snap with the id
RecordOf(snap, id) == CHOOSE r \in Range(snap) : r.ID = id

\* s is a prefix of t
IsPrefix(s, t) == Len(s) <= Len(t) /\ s = SubSeq(t, 1, Len(s))

\* C7: for an input record of DeleteRecords that agrees with existing
\* records in name, type and content, the delete calls issued for it go to
\* those records, in provider order, and when the call succeeds to every one
\* of them and to no other record: they are gone from the zone; the call
\* returns the canonical form of each record it deleted, in the order
\* deleted, and the zone keeps exactly the records no delete call named.
C7_DeleteExactMatches ==
    \A p \in Procs :
        (req[p].op = "Delete" /\ zoneID[p] # 0) =>
            LET snap == pre[p][zoneID[p]]
                want == Wanted(p)
                dels == Deletes(p)
                now == records[zoneID[p]]
            IN  /\ \A i \in DOMAIN want :
                      LET exact == ExactAt(snap, want[i])
                      IN  exact # {} =>
                            /\ IsPrefix(DeletedFor(dels, i), IDsAt(snap, exact))
                            /\ DeleteSucceeded(p) =>
                                  /\ DeletedFor(dels, i) = IDsAt(snap, exact)
                                  /\ \A j \in exact : ~HasID(now, snap[j].ID)
                /\ DeleteSucceeded(p) =>
                      /\ Len(result[p]) = Len(dels)
                      /\ \A k \in DOMAIN result[p] :
                            result[p][k] =
                                internalToLibdns(req[p].zone, RecordOf(snap, dels[k].id)).rr
                      /\ LET Kept(r) == \A k \in DOMAIN dels : dels[k].id # r.ID
                         IN  now = SelectSeq(snap, Kept)

\* C7 witness: DeleteRecords succeeded for one input record that agreed with
\* one of two existing records of its key: that record is gone and returned,
\* the other is still there
C7_Witness ==
    /\ DeleteSucceeded(1)
    /\ Len(req[1].input) = 1
    /\ Len(pre[1][zoneID[1]]) = 2
    /\ SameKeyAt(pre[1][zoneID[1]], Wanted(1)[1]) = {1, 2}
    /\ ExactAt(pre[1][zoneID[1]], Wanted(1)[1]) = {2}
    /\ Len(result[1]) = 1
    /\ records[zoneID[1]] = <<pre[1][zoneID[1]][1]>>

\* C8: for an input record of DeleteRecords that agrees with no existing
\* record in name, type and content but with some in name and type, at most
\* one delete call is issued, and it goes to the first such record in
\* provider order; when the call succeeds exactly that one call was issued
\* for the input, and the other records of the pair are still in the zone
\* unless a delete call for another input record named them.
C8_DeleteFallbackFirst ==
    \A p \in Procs :
        (req[p].op = "Delete" /\ zoneID[p] # 0) =>
            LET snap == pre[p][zoneID[p]]
                want == Wanted(p)
                dels == Deletes(p)
                now == records[zoneID[p]]
            IN  \A i \in DOMAIN want :
                    LET same == SameKeyAt(snap, want[i])
                    IN  (ExactAt(snap, want[i]) = {} /\ same # {}) =>
                            /\ IsPrefix(DeletedFor(dels, i), <<snap[Min(same)].ID>>)
                            /\ DeleteSucceeded(p) =>
                                  /\ DeletedFor(dels, i) = <<snap[Min(same)].ID>>
                                  /\ ~HasID(now, snap[Min(same)].ID)
                                  /\ \A j \in same \ {Min(same)} :
                                        (\A k \in DOMAIN dels : dels[k].id # snap[j].ID)
                                            => snap[j] \in Range(now)

\* C8 witness: DeleteRecords succeeded for one input record whose content no
\* existing record has while two have its name and type: the first of the
\* two is gone, the second is the only record left
C8_Witness ==
    /\ DeleteSucceeded(1)
    /\ Len(req[1].input) = 1
    /\ Len(pre[1][zoneID[1]]) = 2
    /\ ExactAt(pre[1][zoneID[1]], Wanted(1)[1]) = {}
    /\ SameKeyAt(pre[1][zoneID[1]], Wanted(1)[1]) = {1, 2}
    /\ Len(Deletes(1)) = 1
    /\ records[zoneID[1]] = <<pre[1][zoneID[1]][2]>>

(***************************************************************************)
(* Zone resolution on its own: any short zone list, any spelling of the    *)
(* queried name, every operation called without records                    *)
(***************************************************************************)

\* bound: the length of the provider's zone list
MaxZones == 3

\* the names the provider lists: "e.c" bare, with one and with two trailing
\* dots, in another case, and as the suffix of a longer name
ZoneNames ==
    { <<"e", ".", "c">>, <<"e", ".", "c", ".">>, <<"e", ".", "c", ".", ".">>,
      <<"E", ".", "c">>, <<"x", ".", "e", ".", "c">> }

\* the names callers ask for: the spellings above, a wildcard and a suffix
ZoneQueries ==
    { <<"e", ".", "c">>, <<"e", ".", "c", ".">>, <<"e", ".", "c", ".", ".">>,
      <<"E", ".", "c">>, <<"*", ".", "c">>, <<"c">> }

\* the API lists up to MaxZones zones, ids in listing order, without records
InitZones ==
    /\ \E zs \in SeqsUpTo(ZoneNames, MaxZones) :
          /\ zones = [i \in DOMAIN zs |-> [ID |-> i, Name |-> zs[i]]]
          /\ records = [z \in DOMAIN zs |-> << >>]
    /\ nextID = 1
    /\ InitCallers({1})

NextZones ==
    \E p \in Procs :
        \/ /\ pc[p] = "idle"
           /\ \E op \in Ops, zone \in ZoneQueries : Start(p, op, zone, << >>)
        \/ \E outcome \in ReadOutcomes : ZoneLookup(p, outcome)
        \/ \E outcome \in ReadOutcomes : ListRecords(p, outcome)

SpecZones == InitZones /\ [][NextZones]_vars

\* a name without its last character when that is a dot
DropDot(s) == IF s # << >> /\ s[Len(s)] = "." THEN SubSeq(s, 1, Len(s) - 1) ELSE s

\* the positions of the listed zones that match the queried name
MatchesAt(zone) == {i \in DOMAIN zones : DropDot(zones[i].Name) = DropDot(zone)}

\* C11: once the zone list is read, the call holds the id of the first
\* listed zone whose name equals the queried name, each taken without one
\* trailing dot when it has one and compared character by character (case
\* matters, a longer or shorter name or a wildcard does not match); the
\* call ends with zone-not-found exactly when no listed zone matches, in
\* particular when the list is empty.
C11_ZoneResolution ==
    \A p \in Procs :
        (Len(log[p]) >= 1 /\ log[p][1].outcome = "ok") =>
            LET m == MatchesAt(req[p].zone)
            IN  IF m = {}
                THEN Done(p) /\ err[p] = "zone not found" /\ Len(log[p]) = 1
                ELSE zoneID[p] = zones[Min(m)].ID /\ err[p] # "zone not found"

\* C11 witness: the query "e.c." resolved to the second of three zones: the
\* first differs in case, the second is the bare name, the third the name
\* with its trailing dot
C11_Witness ==
    /\ Done(1) /\ err[1] = "none"
    /\ req[1].zone = <<"e", ".", "c", ".">>
    /\ Len(zones) = 3
    /\ zones[1].Name = <<"E", ".", "c">>
    /\ MatchesAt(req[1].zone) = {2, 3}
    /\ zoneID[1] = zones[2].ID

(***************************************************************************)
(* The record translator on its own: libdnsToInternal and internalToLibdns *)
(* applied one after the other, starting from a canonical record or from a *)
(* provider record.  existing[p] collects the provider records and         *)
(* result[p] the canonical records of the chain.                           *)
(***************************************************************************)

\* the zone argument, written without and with the trailing dot
CodecZones == {<<"e", ".", "c">>, <<"e", ".", "c", ".">>}

\* the names of canonical records: empty, the apex marker, the zone name
\* without and with the trailing dot, a relative name and the same name
\* fully qualified without and with the trailing dot
CanonicalNames ==
    { << >>, <<"@">>, <<"e", ".", "c">>, <<"e", ".", "c", ".">>,
      <<"w">>, <<"w", ".", "e", ".", "c">>, <<"w", ".", "e", ".", "c", ".">> }

\* type and data of canonical records: one record of every supported type,
\* the MX and SRV data of the tests ("10 mail.example.com" and
\* "10 20 5060 sip.example.com" with short fields), a quoted TXT value, and
\* MX data with a leading zero, with two spaces and with one field
CanonicalData ==
    { [Type |-> "A", Data |-> <<"1", ".", "2">>],
      [Type |-> "AAAA", Data |-> <<"1", ".", "2">>],
      [Type |-> "CNAME", Data |-> <<"t", ".", "c", ".">>],
      [Type |-> "NS", Data |-> <<"n", ".", "c", ".">>],
      [Type |-> "TXT", Data |-> <<"v">>],
      [Type |-> "TXT", Data |-> <<"\"", "v", "\"">>],
      [Type |-> "MX", Data |-> <<"1", "0", " ", "m">>],
      [Type |-> "MX", Data |-> <<"0", "1", "0", " ", "m">>],
      [Type |-> "MX", Data |-> <<"1", "0", " ", " ", "m">>],
      [Type |-> "MX", Data |-> <<"m">>],
      [Type |-> "SRV", Data |-> <<"1", "0", " ", "2", "0", " ", "5", " ", "s">>] }

\* the ttl of canonical records: 60 s and 30.5 s
CanonicalTTLs == {60 * Second, 30 * Second + 500}

CanonicalRecords ==
    { [Name |-> n, Type |-> d.Type, Data |-> d.Data, TTL |-> t] :
        n \in CanonicalNames, d \in CanonicalData, t \in CanonicalTTLs }

\* the names of provider records: those the comments of internalToLibdns
\* list (relative, "@", empty, fully qualified, the zone name)
ProviderNames ==
    { << >>, <<"@">>, <<"w">>, <<"w", ".", "e", ".", "c">>,
      <<"w", ".", "e", ".", "c", ".">>, <<"e", ".", "c">>, <<"e", ".", "c", ".">> }

\* type, content and priority of provider records
ProviderData ==
    { [Type |-> "A", Content |-> <<"1", ".", "2">>, Priority |-> 0],
      [Type |-> "AAAA", Content |-> <<"1", ".", "2">>, Priority |-> 0],
      [Type |-> "CNAME", Content |-> <<"t", ".", "c", ".">>, Priority |-> 0],
      [Type |-> "NS", Content |-> <<"n", ".", "c", ".">>, Priority |-> 0],
      [Type |-> "TXT", Content |-> <<"v">>, Priority |-> 0],
      [Type |-> "TXT", Content |-> <<"\"", "v", "\"">>, Priority |-> 0],
      [Type |-> "MX", Content |-> <<"m">>, Priority |-> 10],
      [Type |-> "SRV", Content |-> <<"2", "0", " ", "5", " ", "s">>, Priority |-> 10] }

ProviderRecords ==
    { [ID |-> 1, Name |-> n, Type |-> d.Type, Content |-> d.Content,
       TTL |-> 60, Priority |-> d.Priority] :
        n \in ProviderNames, d \in ProviderData }

\* a chain starts with a canonical record handed to libdnsToInternal, or
\* with a provider record handed to internalToLibdns
InitCodec ==
    /\ zones = << >>
    /\ records = << >>
    /\ nextID = 1
    /\ zoneID = [p \in Procs |-> 0]
    /\ cur = [p \in Procs |-> NoCursor]
    /\ result = [p \in Procs |-> << >>]
    /\ err = [p \in Procs |-> "none"]
    /\ log = [p \in Procs |-> << >>]
    /\ pre = [p \in Procs |-> << >>]
    /\ \E zone \in CodecZones :
          \/ \E rr \in CanonicalRecords :
                /\ pc = [p \in Procs |-> IF p = 1 THEN "toProvider" ELSE "off"]
                /\ req = [p \in Procs |->
                            IF p = 1
                            THEN [op |-> "libdnsToInternal", zone |-> zone, input |-> <<rr>>]
                            ELSE [op |-> "none", zone |-> << >>, input |-> << >>]]
                /\ existing = [p \in Procs |-> << >>]
          \/ \E rec \in ProviderRecords :
                /\ pc = [p \in Procs |-> IF p = 1 THEN "toCanonical" ELSE "off"]
                /\ req = [p \in Procs |->
                            IF p = 1
                            THEN [op |-> "internalToLibdns", zone |-> zone, input |-> << >>]
                            ELSE [op |-> "none", zone |-> << >>, input |-> << >>]]
                /\ existing = [p \in Procs |-> IF p = 1 THEN <<rec>> ELSE << >>]

\* libdnsToInternal(zone, rr) applied to the canonical record the chain
\* holds: the input, or the record internalToLibdns returned
CallLibdnsToInternal(p) ==
    /\ pc[p] = "toProvider"
    /\ LET rr == IF result[p] = << >> THEN req[p].input[1] ELSE result[p][Len(result[p])]
       IN  existing' = [existing EXCEPT ![p] = Append(@, libdnsToInternal(req[p].zone, rr))]
    /\ pc' = [pc EXCEPT ![p] = IF result[p] = << >> THEN "toCanonical" ELSE "done"]
    /\ UNCHANGED <<zones, records, nextID, req, zoneID, cur, result, err, log, pre>>

\* internalToLibdns(zone, rec) applied to the provider record the chain
\* holds; the chain ends with the error when the codec rejects the record
CallInternalToLibdns(p) ==
    /\ pc[p] = "toCanonical"
    /\ LET t == internalToLibdns(req[p].zone, existing[p][Len(existing[p])])
       IN  IF ~t.ok
           THEN /\ pc' = [pc EXCEPT ![p] = "done"]
                /\ err' = [err EXCEPT ![p] = "convert"]
                /\ UNCHANGED result
           ELSE /\ result' = [result EXCEPT ![p] = Append(@, t.rr)]
                /\ pc' = [pc EXCEPT ![p] =
                            IF req[p].op = "internalToLibdns" THEN "toProvider" ELSE "done"]
                /\ UNCHANGED err
    /\ UNCHANGED <<zones, records, nextID, req, zoneID, existing, cur, log, pre>>

NextCodec ==
    \E p \in Procs :
        \/ CallLibdnsToInternal(p)
        \/ CallInternalToLibdns(p)

SpecCodec == InitCodec /\ [][NextCodec]_vars

\* the applications of libdnsToInternal in the chain of p: argument, value
Encoded(p) ==
    IF req[p].op = "libdnsToInternal"
    THEN IF Len(existing[p]) >= 1
         THEN {[rr |-> req[p].input[1], rec |-> existing[p][1]]} ELSE {}
    ELSE IF Len(existing[p]) >= 2
         THEN {[rr |-> result[p][1], rec |-> existing[p][2]]} ELSE {}

\* the accepted applications of internalToLibdns in the chain of p
Decoded(p) ==
    IF Len(result[p]) >= 1 THEN {[rec |-> existing[p][1], rr |-> result[p][1]]} ELSE {}

\* the chain of p went from a canonical record to a canonical record
RoundTripFromCanonical(p) ==
    req[p].op = "libdnsToInternal" /\ Done(p) /\ err[p] = "none"

\* the chain of p went from a provider record to a provider record
RoundTripFromProvider(p) ==
    req[p].op = "internalToLibdns" /\ Done(p) /\ err[p] = "none"

\* a canonical name of the apex: empty, the marker, or the zone name, where
\* a trailing dot of the name or of the zone argument makes no difference
IsApexName(name, zone) ==
    name = << >> \/ name = <<"@">> \/ DropDot(name) = DropDot(zone)

\* C12: libdnsToInternal gives the provider name "@" to every canonical
\* name that is empty, is "@" or is the zone name, whether the name and the
\* zone argument are written with or without a trailing dot.
C12_ApexAllSpellings ==
    \A p \in Procs :
        \A e \in Encoded(p) :
            IsApexName(e.rr.Name, req[p].zone) => e.rec.Name = <<"@">>

\* the record types the translator is specified for
SupportedTypes == {"A", "AAAA", "CNAME", "TXT", "MX", "SRV", "NS"}

\* the documented lossy cases of a canonical record: a TXT value written
\* with surrounding quotes, and an SRV record of the apex
LossyCanonical(zone, rr) ==
    \/ rr.Type = "TXT" /\ Trim(rr.Data, {"\""}) # rr.Data
    \/ rr.Type = "SRV" /\ IsApexName(rr.Name, zone)

\* C13: a canonical record of a supported type that went through
\* libdnsToInternal and back through internalToLibdns with the same zone
\* comes back with its name, type, data and ttl, the documented lossy cases
\* (TXT quoting, SRV of the apex) aside.
C13_CanonicalRoundTrip ==
    \A p \in Procs :
        RoundTripFromCanonical(p) =>
            LET rr == req[p].input[1]
                back == result[p][1]
            IN  (rr.Type \in SupportedTypes /\ ~LossyCanonical(req[p].zone, rr)) =>
                    /\ back.Name = rr.Name
                    /\ back.Type = rr.Type
                    /\ back.Data = rr.Data
                    /\ back.TTL = rr.TTL

\* C14: a provider record of a supported type that went through
\* internalToLibdns and back through libdnsToInternal with the same zone
\* comes back with its name, type, content, priority and ttl, so that it is
\* addressed under the same (name, type) key; SRV records with an empty
\* name or the apex marker aside.
C14_ProviderRoundTrip ==
    \A p \in Procs :
        RoundTripFromProvider(p) =>
            LET rec == existing[p][1]
                back == existing[p][2]
            IN  (/\ rec.Type \in SupportedTypes
                 /\ ~(rec.Type = "SRV" /\ rec.Name \in {<< >>, <<"@">>})) =>
                    /\ back.Name = rec.Name
                    /\ back.Type = rec.Type
                    /\ back.Content = rec.Content
                    /\ back.Priority = rec.Priority
                    /\ back.TTL = rec.TTL
                    /\ KeyOf(back) = KeyOf(rec)

\* MX or SRV data with the fields the translator splits: at least two fields
\* for MX, at least four for SRV
HasPriorityField(rr) ==
    \/ rr.Type = "MX" /\ Len(Fields(rr.Data)) >= 2
    \/ rr.Type = "SRV" /\ Len(Fields(rr.Data)) >= 4

\* C15: for MX and SRV data libdnsToInternal stores the first field as the
\* integer priority and the other fields, joined by single spaces, as the
\* content; internalToLibdns renders "<priority> <content>"; the MX data
\* "10 m" and the SRV data "10 20 5 s" pass through {content "m", priority
\* 10} and {content "20 5 s", priority 10} and come back unchanged; records
\* of the other types get priority 0.
C15_PrioritySplit ==
    \A p \in Procs :
        /\ \A e \in Encoded(p) :
              /\ HasPriorityField(e.rr) =>
                    /\ e.rec.Content = Join(Tail(Fields(e.rr.Data)), <<" ">>)
                    /\ \A n \in 0..99 :
                          Fields(e.rr.Data)[1] = IntToStr(n) => e.rec.Priority = n
              /\ e.rr.Type \notin {"MX", "SRV"} => e.rec.Priority = 0
        /\ \A d \in Decoded(p) :
              d.rec.Type \in {"MX", "SRV"} =>
                  d.rr.Data = IntToStr(d.rec.Priority) \o <<" ">> \o d.rec.Content
        /\ (RoundTripFromCanonical(p) /\ req[p].input[1].Type = "MX"
              /\ req[p].input[1].Data = <<"1", "0", " ", "m">>) =>
                  /\ existing[p][1].Content = <<"m">>
                  /\ existing[p][1].Priority = 10
                  /\ result[p][1].Data = <<"1", "0", " ", "m">>
        /\ (RoundTripFromCanonical(p) /\ req[p].input[1].Type = "SRV"
              /\ req[p].input[1].Data = <<"1", "0", " ", "2", "0", " ", "5", " ", "s">>) =>
                  /\ existing[p][1].Content = <<"2", "0", " ", "5", " ", "s">>
                  /\ existing[p][1].Priority = 10
                  /\ result[p][1].Data = <<"1", "0", " ", "2", "0", " ", "5", " ", "s">>

\* C15 witness: the SRV data "10 20 5 s" went to the provider form and back
C15_Witness ==
    /\ RoundTripFromCanonical(1)
    /\ req[1].input[1].Type = "SRV"
    /\ req[1].input[1].Data = <<"1", "0", " ", "2", "0", " ", "5", " ", "s">>
    /\ existing[1][1].Priority = 10
    /\ result[1][1].Data = req[1].input[1].Data

\* the name internalToLibdns reconstructs: rec.Name, or the placeholder in
\* the place of an empty name or the apex marker of an SRV record
NameToReconstruct(rec) ==
    IF rec.Type = "SRV" /\ rec.Name \in {<< >>, <<"@">>} THEN SRVPlaceholder ELSE rec.Name

\* the absolute name as the claim lists it, for the bare zone name z
ClaimedName(z, name) ==
    IF name \in {<< >>, <<"@">>} THEN z \o <<".">>
    ELSE IF HasSuffix(name, <<".">> \o z) \/ HasSuffix(name, <<".">> \o z \o <<".">>)
    THEN DropDot(name) \o <<".">>
    ELSE IF name = z THEN z \o <<".">>
    ELSE name \o <<".">> \o z \o <<".">>

\* the same with the zone name written with its trailing dot taken as the
\* zone name too
AmendedName(z, name) ==
    IF name \in {<< >>, <<"@">>} THEN z \o <<".">>
    ELSE IF HasSuffix(name, <<".">> \o z) \/ HasSuffix(name, <<".">> \o z \o <<".">>)
    THEN DropDot(name) \o <<".">>
    ELSE IF name = z \/ name = z \o <<".">> THEN z \o <<".">>
    ELSE name \o <<".">> \o z \o <<".">>

\* the name ends in the zone name and in exactly one dot
EndsInZone(z, name) ==
    HasSuffix(name, z \o <<".">>) /\ ~HasSuffix(name, <<".", ".">>)

Canceled(p) == req[p].ctx = "canceled"

\* the caller cancels the context (or its deadline passes) while the
\* operation runs
Cancel(p) ==
    /\ pc[p] \in {"zone", "list", "append", "set", "delete"}
    /\ ~Canceled(p)
    /\ req' = [req EXCEPT ![p].ctx = "canceled"]
    /\ UNCHANGED <<zones, records, nextID, pc, zoneID, existing, cur, result, err, log, pre>>

NextCancel ==
    \/ Next
    \/ \E p \in Procs : Cancel(p)

SpecCancel == Init /\ [][NextCancel]_vars

\* C17: once the context of a running operation is done, no step changes
\* the provider state, and the next step of the operation is its return:
\* the one provider call it still attempts is refused without being
\* applied, and the operation returns the error of the context, which is
\* neither a provider nor a transport error.
C17_CancelStopsOperation ==
    [][\A p \in Procs :
          (Canceled(p) /\ ~Done(p)) =>
              /\ records' = records
              /\ nextID' = nextID
              /\ pc'[p] # pc[p] =>
                    /\ pc'[p] = "done"
                    /\ err'[p] = "canceled"
                    /\ result'[p] = << >>
                    /\ Len(log'[p]) = Len(log[p]) + 1
                    /\ log'[p][Len(log'[p])].outcome = "canceled"
                    /\ \A k \in DOMAIN log[p] : log'[p][k] = log[p][k]
      ]_vars

\* C17 witness: SetRecords was cancelled after a create of its was applied;
\* it returned the error of the context and the created record is there
C17_Witness ==
    /\ Done(1) /\ req[1].op = "Set" /\ err[1] = "canceled"
    /\ Len(log[1]) >= 4
    /\ log[1][3].call = "create" /\ log[1][3].outcome = "ok"
    /\ log[1][Len(log[1])].outcome = "canceled"
    /\ Len(records[zoneID[1]]) = Len(pre[1][zoneID[1]]) + 1

(***************************************************************************)
(* A call and a later call of the same caller, each with at most one       *)
(* record.  zoneID[p] and existing[p] keep what the earlier call read      *)
(* until the later call reads them again.                                  *)
(***************************************************************************)

\* the caller, back from its first call, is about to call again
Again(p) ==
    /\ pc[p] = "done"
    /\ ~req[p].again
    /\ pc' = [pc EXCEPT ![p] = "idle"]
    /\ req' = [req EXCEPT ![p].again = TRUE]
    /\ result' = [result EXCEPT ![p] = << >>]
    /\ err' = [err EXCEPT ![p] = "none"]
    /\ UNCHANGED <<zones, records, nextID, zoneID, existing, cur, log, pre>>

\* the record lists of these calls: none, or one record
ShortInputs == {<< >>} \cup {<<r>> : r \in InputPool}

NextAgain ==
    \E p \in Procs :
        \/ /\ pc[p] = "idle"
           /\ \E op \in Ops, zone \in ZoneArgs, input \in ShortInputs :
                 /\ op = "Get" => input = << >>
                 /\ Start(p, op, zone, input)
        \/ \E outcome \in ReadOutcomes : ZoneLookup(p, outcome)
        \/ \E outcome \in ReadOutcomes : ListRecords(p, outcome)
        \/ \E outcome \in WriteOutcomes : AppendStep(p, outcome)
        \/ \E key \in cur[p].left : \E outcome \in WriteOutcomes : SetStep(p, key, outcome)
        \/ \E outcome \in WriteOutcomes : DeleteStep(p, outcome)
        \/ Again(p)

SpecAgain == Init /\ [][NextAgain]_vars

\* the calls of p are in order: the zone lookup first and only there, the
\* record list second and only there, every call issued after the one
\* before it returned without error; a mutation comes after the zone
\* lookup and, where needsList holds of the operation, after the record list
InOrder(p, needsList(_)) ==
    LET l == log[p]
    IN  /\ l # << >> => l[1].call = "zones"
        /\ Done(p) => l # << >>
        /\ \A k \in DOMAIN l :
              /\ l[k].call = "zones" => k = 1
              /\ l[k].call = "list" => k = 2
              /\ k > 1 => l[k - 1].outcome = "ok"
              /\ l[k].call \in Mutations =>
                    IF needsList(req[p].op) THEN k >= 3 /\ l[2].call = "list" ELSE k >= 2

\* what the running call of p works with is what it read itself: the id of
\* the zone it asked for, and the records the zone held when it listed them
OwnReads(p) ==
    /\ pc[p] \in {"list", "append", "set", "delete"} =>
          /\ MatchesAt(req[p].zone) # {}
          /\ zoneID[p] = zones[Min(MatchesAt(req[p].zone))].ID
    /\ pc[p] \in {"set", "delete"} => existing[p] = pre[p][zoneID[p]]

\* C18 as claimed: every operation issues its calls one after the other in
\* the order zone lookup, record list, mutations; no mutation is issued
\* before the zone lookup and the record list of the same call returned;
\* each call does one zone lookup of its own; a later call reuses neither
\* the zone id nor the record list an earlier call read.
C18_CallOrderAsClaimed ==
    \A p \in Procs :
        LET AnyOp(op) == TRUE
        IN  InOrder(p, AnyOp) /\ OwnReads(p)

\* C18 amended: as claimed, but AppendRecords lists no records: its creates
\* follow the zone lookup.
C18_CallOrder ==
    \A p \in Procs :
        LET Lists(op) == op # "Append"
        IN  InOrder(p, Lists) /\ OwnReads(p)

\* C18 witness: a later SetRecords call has looked up the zone, listed the
\* records, updated one and deleted one, in a zone that held more records
\* when the call started than it held at first: the earlier call created one
C18_Witness ==
    /\ req[1].again /\ Done(1) /\ req[1].op = "Set" /\ err[1] = "none"
    /\ Len(log[1]) = 4
    /\ log[1][3].call = "update" /\ log[1][4].call = "delete"
    /\ Len(pre[1][zoneID[1]]) > MaxExisting

(***************************************************************************)
(* Two callers with one provider value: each calls once, with one record,  *)
(* on the listed zone; their provider calls interleave in any order        *)
(***************************************************************************)

\* the zone both callers name
RaceZone == <<"e", ".", "c", ".">>

\* the operations that change records
RaceOps == {"Append", "Set", "Delete"}

\* the record lists of the two calls: one record each
RaceInputs == {<<r>> : r \in InputPool}

InitRace == InitProvider /\ InitCallers({1, 2})

NextRace ==
    \E p \in Procs :
        \/ /\ pc[p] = "idle"
           /\ \E op \in RaceOps, input \in RaceInputs : Start(p, op, RaceZone, input)
        \/ \E outcome \in ReadOutcomes : ZoneLookup(p, outcome)
        \/ \E outcome \in ReadOutcomes : ListRecords(p, outcome)
        \/ \E outcome \in WriteOutcomes : AppendStep(p, outcome)
        \/ \E key \in cur[p].left : \E outcome \in WriteOutcomes : SetStep(p, key, outcome)
        \/ \E outcome \in WriteOutcomes : DeleteStep(p, outcome)

SpecRace == InitRace /\ [][NextRace]_vars

\* both callers ran SetRecords and both returned without error
BothSetSucceeded == SetSucceeded(1) /\ SetSucceeded(2)

\* the exact-set guarantee of caller p for the key: the zone holds under the
\* key as many records as p passed, with the payloads p passed
ExactSetFor(p, key) ==
    LET want == WithKey(Wanted(p), key)
        have == WithKey(records[zoneID[p]], key)
    IN  /\ Len(have) = Len(want)
        /\ \A x \in {Payload(want[i]) : i \in DOMAIN want} :
              CountOf(have, key, x) = CountOf(want, key, x)

\* C19: nothing keeps the calls of two callers apart.  When two SetRecords
\* calls on the same zone worked from the same record list and both
\* returned success, then for every key both name the zone holds the
\* existing records both kept plus the records each of them created: a key
\* without existing records ends with the records of both callers, so that
\* the exact-set guarantee holds for neither.
C19_RaceNoLock ==
    (BothSetSucceeded /\ existing[1] = existing[2]) =>
        \A key \in WantedKeys(1) \cap WantedKeys(2) :
            LET e == Len(ExistingForKey(existing[1], key))
                n1 == Len(WithKey(Wanted(1), key))
                n2 == Len(WithKey(Wanted(2), key))
                kept == IF e <= n1 /\ e <= n2 THEN e ELSE IF n1 <= n2 THEN n1 ELSE n2
                have == Len(WithKey(records[zoneID[1]], key))
            IN  /\ have = kept + Max(0, n1 - e) + Max(0, n2 - e)
                /\ e = 0 => /\ have = n1 + n2
                            /\ ~ExactSetFor(1, key)
                            /\ ~ExactSetFor(2, key)

\* C19 witness: two SetRecords calls with one MX record of the apex each,
\* different ones, on a zone without records: both listed the empty zone,
\* both created their record and returned success, and the zone holds two
\* MX records where each caller set one
C19_Witness ==
    /\ BothSetSucceeded
    /\ pre[1][zoneID[1]] = << >> /\ existing[1] = << >> /\ existing[2] = << >>
    /\ Wanted(1)[1].Type = "MX" /\ Wanted(2)[1].Type = "MX"
    /\ Wanted(1)[1].Content # Wanted(2)[1].Content
    /\ Len(records[zoneID[1]]) = 2
    /\ ~ExactSetFor(1, KeyOf(Wanted(1)[1]))
    /\ ~ExactSetFor(2, KeyOf(Wanted(2)[1]))

\* C20: a provider call that failed (transport failure, non-2xx status or
\* unreadable response) is the last call of its operation: the operation
\* has returned, with the error of the call and without a result, and has
\* issued no call after it, neither the same one again nor another.
C20_NoRetry ==
    \A p \in Procs :
        \A k \in DOMAIN log[p] :
            log[p][k].outcome # "ok" =>
                /\ k = Len(log[p])
                /\ Done(p)
                /\ err[p] = "http"
                /\ result[p] = << >>

\* C20 witness: DeleteRecords looked up the zone, listed the records,
\* deleted one record, failed to delete the next and returned
C20_Witness ==
    /\ Done(1) /\ req[1].op = "Delete" /\ err[1] = "http"
    /\ Len(log[1]) = 4
    /\ log[1][3].call = "delete" /\ log[1][3].outcome = "ok"
    /\ log[1][4].call = "delete" /\ log[1][4].outcome = "fail"
    /\ Len(records[zoneID[1]]) = Len(pre[1][zoneID[1]]) - 1

(***************************************************************************)
(* SetRecords with records of two pairs that all translate, and the same   *)
(* call once more after it succeeded                                       *)
(***************************************************************************)

\* the canonical records of these calls: two MX records of the apex, one
\* named "@" and one by the absolute name of the zone, and a TXT record of
\* "w"
KeyInputPool ==
    { [Name |-> <<"@">>, Type |-> "MX", Data |-> <<"1", "0", " ", "m">>, TTL |-> 60000],
      [Name |-> <<"e", ".", "c", ".">>, Type |-> "MX", Data |-> <<"2", "0", " ", "n">>, TTL |-> 30500],
      [Name |-> <<"w">>, Type |-> "TXT", Data |-> <<"t">>, TTL |-> 60000] }

\* the records the zone may hold before the first call
KeyExistingPool ==
    { [ID |-> 0, Name |-> <<"@">>, Type |-> "MX", Content |-> <<"m">>, TTL |-> 60, Priority |-> 10],
      [ID |-> 0, Name |-> <<"@">>, Type |-> "MX", Content |-> <<"o">>, TTL |-> 60, Priority |-> 30],
      [ID |-> 0, Name |-> <<"w">>, Type |-> "TXT", Content |-> <<"u">>, TTL |-> 60, Priority |-> 0] }

\* the record lists of these calls
KeyInputs == SeqsUpTo(KeyInputPool, MaxInput)

InitKeys ==
    /\ zones = << [ID |-> 2, Name |-> <<"o", ".", "c">>],
                  [ID |-> 1, Name |-> <<"e", ".", "c">>] >>
    /\ \E recs \in SeqsUpTo(KeyExistingPool, MaxExisting) :
          /\ records = [z \in {1, 2} |-> IF z = 1 THEN WithIDs(recs) ELSE << >>]
          /\ nextID = Len(recs) + 1
    /\ InitCallers({1})

\* the caller, whose SetRecords call returned without error, calls
\* SetRecords again with the same zone and the same records
SetAgain(p) ==
    /\ pc[p] = "done"
    /\ req[p].op = "Set"
    /\ err[p] = "none"
    /\ ~req[p].again
    /\ pc' = [pc EXCEPT ![p] = "zone"]
    /\ req' = [req EXCEPT ![p].again = TRUE]
    /\ result' = [result EXCEPT ![p] = << >>]
    /\ log' = [log EXCEPT ![p] = << >>]
    /\ pre' = [pre EXCEPT ![p] = records]
    /\ UNCHANGED <<zones, records, nextID, zoneID, existing, cur, err>>

NextKeys ==
    \E p \in Procs :
        \/ /\ pc[p] = "idle"
           /\ \E input \in KeyInputs : Start(p, "Set", RaceZone, input)
        \/ \E outcome \in ReadOutcomes : ZoneLookup(p, outcome)
        \/ \E outcome \in ReadOutcomes : ListRecords(p, outcome)
        \/ \E key \in cur[p].left : \E outcome \in WriteOutcomes : SetStep(p, key, outcome)
        \/ SetAgain(p)

SpecKeys == InitKeys /\ [][NextKeys]_vars

\* the update and create calls of the call of p, in the order issued
Writes(p) == LET Is(c) == c.call \in {"update", "create"} IN SelectSeq(log[p], Is)

\* the positions of the returned records of p that belong to the key
ResultsAt(p, key) ==
    {k \in DOMAIN result[p] : KeyOf(libdnsToInternal(req[p].zone, result[p][k])) = key}

\* the positions S are next to each other
Contiguous(S) == \A a \in S : \A b \in S : \A c \in a..b : c \in S

\* C21: a SetRecords call that succeeded returns one record per input
\* record; the returned records of a (name, type) key are next to each
\* other, are the canonical forms of the input records of the key in input
\* order, and those that come from an update precede those that come from
\* a create.  (Which key comes first is the choice of the map iteration.)
C21_SetResultOrder ==
    \A p \in Procs :
        SetSucceeded(p) =>
            LET zone == req[p].zone
                want == Wanted(p)
                calls == Writes(p)
            IN  /\ Len(result[p]) = Len(req[p].input)
                /\ Len(calls) = Len(result[p])
                /\ \A k \in DOMAIN result[p] :
                      result[p][k] = internalToLibdns(zone, calls[k].rec).rr
                /\ \A key \in {KeyOf(want[i]) : i \in DOMAIN want} :
                      LET at == ResultsAt(p, key)
                          mine == WithKey(want, key)
                      IN  /\ Contiguous(at)
                          /\ Cardinality(at) = Len(mine)
                          /\ \A j \in DOMAIN mine :
                                result[p][Kth(at, j)] = internalToLibdns(zone, mine[j]).rr
                          /\ \A a \in at : \A b \in at :
                                (calls[a].call = "create" /\ calls[b].call = "update") => b < a

\* C21 witness: SetRecords succeeded with an MX, a TXT and another MX record
\* in this order on a zone that held one MX record: the TXT record came
\* back first, then the MX record that was updated, then the one created
C21_Witness ==
    /\ SetSucceeded(1) /\ ~req[1].again
    /\ Len(req[1].input) = 3
    /\ req[1].input[1].Type = "MX" /\ req[1].input[2].Type = "TXT" /\ req[1].input[3].Type = "MX"
    /\ req[1].input[1] # req[1].input[3]
    /\ Len(pre[1][zoneID[1]]) = 1 /\ pre[1][zoneID[1]][1].Type = "MX"
    /\ result[1][1].Type = "TXT"
    /\ Writes(1)[2].call = "update" /\ Writes(1)[3].call = "create"

\* C22: within one DeleteRecords call no record id is passed to
\* deleteRecord more than once, whatever the input: the same record twice,
\* or one record that agrees with an existing record in content and another
\* that reaches the same existing record through the fallback.
C22_DeleteEachIDOnce ==
    \A p \in Procs :
        req[p].op = "Delete" =>
            LET dels == Deletes(p)
            IN  \A j \in DOMAIN dels : \A k \in DOMAIN dels :
                    j # k => dels[j].id # dels[k].id

\* the later of the two SetRecords calls of p returned without error
SecondSetSucceeded(p) == req[p].again /\ SetSucceeded(p)

\* C23: SetRecords is idempotent for one caller: a second SetRecords call
\* with the same zone and records, after the first succeeded, issues when it
\* succeeds one update per input record and neither a create nor a delete,
\* and leaves the zone as it found it: the same ids holding the same name,
\* type, content, priority and ttl, in the same order.
C23_SetIdempotent ==
    \A p \in Procs :
        SecondSetSucceeded(p) =>
            /\ \A k \in DOMAIN log[p] : log[p][k].call \in {"zones", "list", "update"}
            /\ Len(Writes(p)) = Len(req[p].input)
            /\ IDs(records[zoneID[p]]) = IDs(pre[p][zoneID[p]])
            /\ Range(records[zoneID[p]]) = Range(pre[p][zoneID[p]])
            /\ records = pre[p]

\* C23 witness: the second SetRecords call with three records of two keys
\* succeeded with three updates, on a zone where the first call had kept
\* the first record, deleted another and created two
C23_Witness ==
    /\ SecondSetSucceeded(1)
    /\ Len(req[1].input) = 3
    /\ Cardinality(WantedKeys(1)) = 2
    /\ Len(Writes(1)) = 3
    /\ IDs(records[zoneID[1]]) = {1, 3, 4}

(***************************************************************************)
(* SetRecords and DeleteRecords with one record, on a zone whose records   *)
(* the provider returns under any of the name spellings internalToLibdns  *)
(* reads: "", "@" or the zone name for the apex, relative or               *)
(* fully-qualified for a host                                              *)
(***************************************************************************)

\* the records the zone may hold: an MX record of the apex under three
\* spellings, a TXT record of "w" under two
SpelledPool ==
    { [ID |-> 0, Name |-> << >>, Type |-> "MX", Content |-> <<"m">>, TTL |-> 60, Priority |-> 10],
      [ID |-> 0, Name |-> <<"e", ".", "c">>, Type |-> "MX", Content |-> <<"m">>, TTL |-> 60, Priority |-> 10],
      [ID |-> 0, Name |-> <<"@">>, Type |-> "MX", Content |-> <<"m">>, TTL |-> 60, Priority |-> 10],
      [ID |-> 0, Name |-> <<"w", ".", "e", ".", "c">>, Type |-> "TXT", Content |-> <<"t">>, TTL |-> 60, Priority |-> 0],
      [ID |-> 0, Name |-> <<"w">>, Type |-> "TXT", Content |-> <<"t">>, TTL |-> 60, Priority |-> 0] }

\* the record lists of these calls: one record
SpelledInputs == {<<r>> : r \in KeyInputPool}

InitSpelled ==
    /\ zones = << [ID |-> 2, Name |-> <<"o", ".", "c">>],
                  [ID |-> 1, Name |-> <<"e", ".", "c">>] >>
    /\ \E recs \in SeqsUpTo(SpelledPool, MaxExisting) :
          /\ records = [z \in {1, 2} |-> IF z = 1 THEN WithIDs(recs) ELSE << >>]
          /\ nextID = Len(recs) + 1
    /\ InitCallers({1})

NextSpelled ==
    \E p \in Procs :
        \/ /\ pc[p] = "idle"
           /\ \E op \in {"Set", "Delete"}, input \in SpelledInputs : Start(p, op, RaceZone, input)
        \/ \E outcome \in ReadOutcomes : ZoneLookup(p, outcome)
        \/ \E outcome \in ReadOutcomes : ListRecords(p, outcome)
        \/ \E key \in cur[p].left : \E outcome \in WriteOutcomes : SetStep(p, key, outcome)
        \/ \E outcome \in WriteOutcomes : DeleteStep(p, outcome)

SpecSpelled == InitSpelled /\ [][NextSpelled]_vars

\* the provider records r and w have the same type and internalToLibdns
\* gives them the same canonical name
SameCanonicalKey(zone, r, w) ==
    /\ r.Type = w.Type
    /\ internalToLibdns(zone, r).rr.Name = internalToLibdns(zone, w).rr.Name

\* C24: SetRecords and DeleteRecords take an existing record as a record of
\* the key of an input record whenever both have the same type and the same
\* canonical name, however the provider spells the name.  So after a
\* SetRecords call that succeeded the zone holds, under the canonical name
\* and type of an input record, as many records as the input has for them;
\* and a DeleteRecords call that succeeded has issued a delete for every
\* input record that has the canonical name and type of an existing record.
C24_SpellingsMatched ==
    \A p \in Procs :
        LET zone == req[p].zone
            want == Wanted(p)
        IN  /\ SetSucceeded(p) =>
                  \A i \in DOMAIN want :
                      LET same == {j \in DOMAIN records[zoneID[p]] :
                                      SameCanonicalKey(zone, records[zoneID[p]][j], want[i])}
                      IN  Cardinality(same) = Len(WithKey(want, KeyOf(want[i])))
            /\ DeleteSucceeded(p) =>
                  \A i \in DOMAIN want :
                      (\E r \in Range(pre[p][zoneID[p]]) : SameCanonicalKey(zone, r, want[i]))
                          => DeletedFor(Deletes(p), i) # << >>

\* some record the zone held when the call of p started has the name and
\* type of a normalized input record
SharesKey(p) == \E r \in Range(pre[p][zoneID[p]]) : KeyOf(r) \in WantedKeys(p)

\* C25: DeleteRecords issues, after the zone lookup and the record list,
\* delete calls only, each for a record the zone held whose name and type
\* are those of a normalized input record; at every point of the call,
\* finished or aborted, the zone holds the records it held, unchanged and in
\* order, without those a delete call that was answered named.  When no
\* record of the zone has the name and type of an input record, the call
\* issues no delete and returns an empty result without error.
C25_DeleteFrame ==
    \A p \in Procs :
        req[p].op = "Delete" =>
            /\ \A k \in DOMAIN log[p] :
                  /\ log[p][k].call \in {"zones", "list", "delete"}
                  /\ log[p][k].call = "delete" =>
                        \E r \in Range(pre[p][zoneID[p]]) :
                            r.ID = log[p][k].id /\ KeyOf(r) \in WantedKeys(p)
            /\ \A z \in DOMAIN records :
                  LET Kept(r) == \A k \in DOMAIN log[p] :
                                    ~(/\ log[p][k].call = "delete"
                                      /\ log[p][k].outcome = "ok"
                                      /\ log[p][k].id = r.ID
                                      /\ z = zoneID[p])
                  IN  records[z] = SelectSeq(pre[p][z], Kept)
            /\ (Done(p) /\ Len(log[p]) >= 2 /\ log[p][2].outcome = "ok" /\ ~SharesKey(p)) =>
                  /\ Len(log[p]) = 2
                  /\ err[p] = "none"
                  /\ result[p] = << >>
                  /\ records = pre[p]

\* C25 witness: DeleteRecords succeeded with one MX record on a zone that
\* held a record of another key before an MX record: one delete, of the MX
\* record, and the other record is what the zone holds
C25_Witness ==
    /\ DeleteSucceeded(1)
    /\ Len(req[1].input) = 1 /\ req[1].input[1].Type = "MX"
    /\ Len(pre[1][zoneID[1]]) = 2
    /\ pre[1][zoneID[1]][1].Type = "A" /\ pre[1][zoneID[1]][2].Type = "MX"
    /\ Len(Deletes(1)) = 1 /\ Deletes(1)[1].id = 2
    /\ records[zoneID[1]] = <<pre[1][zoneID[1]][1]>>

====
